---- MODULE Spec2Model ----
(***************************************************************************)
(* Model of the ggpr_bin container stack: pointer tables, sprite records   *)
(* and their decompressor, palette reindexing, cells and the format        *)
(* identifier.  Byte buffers are sequences of 0..255 and are addressed     *)
(* from 0 as in the source (At, Slice).  A Rust panic (index out of range, *)
(* unwrap of an error, slice with start > end) is the outcome panic.       *)
(***************************************************************************)
EXTENDS Integers, Sequences, FiniteSets, TLC

VARIABLES
    pc,               \* position of the operation under study
    overflow_checks,  \* whether the build panics on arithmetic overflow (debug) or wraps
    objects,          \* sub-object blobs handed to the archive writer
    file_vector,      \* bytes written by save_resource_file
    parsed,           \* outcome of get_objects on file_vector
    source_pointers,  \* argument of finalize_pointers
    target_vector,    \* bytes returned by finalize_pointers
    value,            \* argument of transform_index
    value_once,       \* outcome of transform_index(value)
    value_twice,      \* outcome of transform_index applied to value_once
    vector,           \* RGBA palette array handed to the reindexers
    vector_once,      \* outcome of reindex_rgba_vector(vector)
    vector_twice,     \* outcome of reindex_rgba_vector applied again
    palette,          \* BinPalette.palette, reindexed in place
    palette_calls,    \* completed (or aborted) calls of BinPalette::reindex
    cell,             \* the Cell under study
    cell_bin,         \* bytes returned by Cell::to_bin
    cell_json,        \* CellJSON document written by Cell::serialize
    cell_back,        \* the Cell returned by Cell::from_json_string
    candidate,        \* blob handed to identify_object
    object_type,      \* outcome of identify_object
    bin_sprite,       \* the sprite handed to BinSprite::to_bin
    sprite_bin,       \* bytes of the sprite record
    flip,             \* nibble order of this build's 4 bpp transcoding
    bin_header,       \* BinHeader read from sprite_bin
    embedded_palette, \* palette read by decompress
    byte_data,        \* the stream handed to the BitReader
    bit_position,     \* bits the BitReader has consumed
    iterations,       \* iteration count read from the record
    iteration,        \* iterations of the decoding loop completed
    pixel_vector,     \* bytes decoded so far
    sprite_data,      \* SpriteData returned by decompress
    archive,          \* bytes of the archive handed to load_resource_file
    resource_dictionary, \* outcome of load_resource_file
    file_path,        \* components of the path handed to decrypt_file
    encrypted_data,   \* bytes handed to decrypt_file
    name_seed,        \* seed folded from the file name
    twister,          \* the MersenneTwister, index and table
    numbers,          \* values returned by get_next_number so far
    last_out,         \* running output word of decrypt_file
    output,           \* bytes produced by decrypt_file
    entry_data,       \* contents of the directory entry on disk
    read_data,        \* bytes decrypt_folder read from the entry
    entry_decrypted,  \* whether decrypt_folder called decrypt_file for the entry
    load_error,       \* outcome of load_binary_data on entry_data
    palette_rgba,     \* RGBA palette handed to alpha_double
    palette_doubled,  \* outcome of alpha_double
    nibble_flip,      \* the flip argument of the 4 bpp conversions
    nibble_input,     \* array handed to the first conversion
    nibble_once,      \* outcome of the first conversion
    nibble_twice,     \* outcome of the opposite conversion applied to nibble_once
    script_data,      \* bytes handed to BinScript::from_bin
    has_play_data,    \* the play_data argument of from_bin
    play_data_array,  \* PlayData blocks read by from_bin
    prelude_cursor,   \* cursor at the end of the play data
    script_cursor,    \* cursor at which the actions are parsed
    script_actions,   \* ScriptActions read by from_bin
    script_out,       \* bytes returned by BinScript::to_bin
    cell_buffer,      \* bytes handed to Cell::from_binary_data
    cell_read,        \* outcome of Cell::from_binary_data
    object_dictionary,\* the scriptable dictionary handed to the serializers
    object_vector,    \* bytes returned by get_bin_scriptable
    object_binary,    \* bytes returned by ObjectData::get_as_binary
    loaded_scriptable, \* outcome of load_scriptable on object_vector
    raw_record,       \* bytes of a sprite file handed to get_bin_data and load_sprites
    raw_data,         \* outcome of get_bin_data on raw_record
    raw_loaded,       \* SpriteData built by load_sprites for raw_record
    frame_iterations, \* the u32 iteration count handed to the record writer
    frame_stream,     \* the compressed stream handed to the record writer
    frame_record,     \* the record bytes written
    frame_read        \* what decompress parses from frame_record before its loop

tableVars == <<objects, file_vector, parsed>>
pointerVars == <<source_pointers, target_vector>>
indexVars == <<value, value_once, value_twice>>
rgbaVars == <<vector, vector_once, vector_twice, palette, palette_calls>>
cellVars == <<cell, cell_bin, cell_json, cell_back>>
identifyVars == <<candidate, object_type>>
spriteVars == <<bin_sprite, sprite_bin, flip, bin_header, embedded_palette, byte_data, bit_position, iterations, iteration, pixel_vector, sprite_data>>
archiveVars == <<archive, resource_dictionary>>
decryptVars == <<file_path, encrypted_data, name_seed, twister, numbers, last_out, output>>
signatureVars == <<entry_data, read_data, entry_decrypted, load_error>>
alphaVars == <<palette_rgba, palette_doubled>>
nibbleVars == <<nibble_flip, nibble_input, nibble_once, nibble_twice>>
scriptVars == <<script_data, has_play_data, play_data_array, prelude_cursor, script_cursor, script_actions, script_out>>
binaryVars == <<cell_buffer, cell_read>>
scriptableVars == <<object_dictionary, object_vector, object_binary, loaded_scriptable>>
rawVars == <<raw_record, raw_data, raw_loaded>>
frameVars == <<frame_iterations, frame_stream, frame_record, frame_read>>

(***************************************************************************)
(* Bytes and words                                                         *)
(***************************************************************************)
(* A u32 is held as its two 16-bit halves, [hi, lo]; TLC's integers stop   *)
(* at 2^31.  as_usize is exact below 2^24 and maps every larger value to   *)
(* OutOfRange, which exceeds every buffer length and index sum of the      *)
(* model, so that bounds comparisons come out as in the source.            *)
Half == 65536

OutOfRange == 16777216

u32(n) == [hi |-> (n \div Half) % Half, lo |-> n % Half]

SENTINEL == [hi |-> Half - 1, lo |-> Half - 1]

as_usize(w) == IF w.hi < 256 THEN w.hi * Half + w.lo ELSE OutOfRange

wrapping_add_u32(w, n) ==
    [hi |-> (w.hi + ((w.lo + n) \div Half)) % Half, lo |-> (w.lo + n) % Half]

At(s, i) == s[i + 1]

Slice(s, a, b) == SubSeq(s, a + 1, b)

to_le_bytes_u32(w) ==
    << w.lo % 256, w.lo \div 256, w.hi % 256, w.hi \div 256 >>

from_le_bytes_u32(b0, b1, b2, b3) == [hi |-> b2 + 256 * b3, lo |-> b0 + 256 * b1]

from_be_bytes_u32(b0, b1, b2, b3) == [hi |-> b1 + 256 * b0, lo |-> b3 + 256 * b2]

RECURSIVE Concat(_)
Concat(ss) == IF ss = << >> THEN << >> ELSE Head(ss) \o Concat(Tail(ss))

RECURSIVE SeqsUpTo(_, _)
SeqsUpTo(S, n) ==
    IF n = 0 THEN { << >> }
    ELSE LET shorter == SeqsUpTo(S, n - 1)
         IN  shorter \cup { Append(s, x) : s \in { t \in shorter : Len(t) = n - 1 }, x \in S }

(***************************************************************************)
(* Pointer tables: bin_identify.rs get_pointers, bin_resource.rs           *)
(* get_objects, finalize_pointers and the passthrough path of              *)
(* save_resource_file.                                                     *)
(***************************************************************************)
RECURSIVE get_pointers_loop(_, _, _, _)
get_pointers_loop(bin_data, cursor, big_endian, pointers) ==
    IF cursor + 3 >= Len(bin_data) THEN pointers
    ELSE LET pointer ==
                 IF big_endian
                 THEN from_be_bytes_u32(At(bin_data, cursor), At(bin_data, cursor + 1),
                                        At(bin_data, cursor + 2), At(bin_data, cursor + 3))
                 ELSE from_le_bytes_u32(At(bin_data, cursor), At(bin_data, cursor + 1),
                                        At(bin_data, cursor + 2), At(bin_data, cursor + 3))
         IN  IF pointer = SENTINEL THEN pointers
             ELSE get_pointers_loop(bin_data, cursor + 4, big_endian, Append(pointers, pointer))

get_pointers(bin_data, cursor, big_endian) ==
    get_pointers_loop(bin_data, cursor, big_endian, << >>)

RECURSIVE get_objects_loop(_, _, _, _)
get_objects_loop(bin_data, header_pointers, pointer, objs) ==
    IF pointer >= Len(header_pointers) THEN [panic |-> FALSE, objects |-> objs]
    ELSE IF as_usize(At(header_pointers, pointer)) >= Len(bin_data)
         THEN [panic |-> FALSE, objects |-> objs]
    ELSE IF pointer = Len(header_pointers) - 1
         THEN get_objects_loop(bin_data, header_pointers, pointer + 1,
                  Append(objs, Slice(bin_data, as_usize(At(header_pointers, pointer)),
                                     Len(bin_data))))
    ELSE IF \/ as_usize(At(header_pointers, pointer)) > as_usize(At(header_pointers, pointer + 1))
            \/ as_usize(At(header_pointers, pointer + 1)) > Len(bin_data)
         THEN [panic |-> TRUE, objects |-> objs]
    ELSE get_objects_loop(bin_data, header_pointers, pointer + 1,
             Append(objs, Slice(bin_data, as_usize(At(header_pointers, pointer)),
                                as_usize(At(header_pointers, pointer + 1)))))

get_objects(bin_data) ==
    get_objects_loop(bin_data, get_pointers(bin_data, 0, FALSE), 0, << >>)

RECURSIVE terminate_and_align(_)
terminate_and_align(target_pointers) ==
    IF Len(target_pointers) % 4 # 0
    THEN terminate_and_align(Append(target_pointers, SENTINEL))
    ELSE target_pointers

finalize_pointers_unadjusted(source_pointers_) ==
    LET target_pointers == terminate_and_align(Append(source_pointers_, SENTINEL))
    IN  Concat([ p \in 1..Len(target_pointers) |->
                   to_le_bytes_u32(IF p <= Len(source_pointers_)
                                   THEN wrapping_add_u32(target_pointers[p], 4 * Len(source_pointers_))
                                   ELSE target_pointers[p]) ])

finalize_pointers(source_pointers_) ==
    LET target_pointers == terminate_and_align(Append(source_pointers_, SENTINEL))
    IN  Concat([ p \in 1..Len(target_pointers) |->
                   to_le_bytes_u32(IF p <= Len(source_pointers_)
                                   THEN wrapping_add_u32(target_pointers[p], 4 * Len(target_pointers))
                                   ELSE target_pointers[p]) ])

\* offsets taken after each object's bytes were appended
RECURSIVE data_offsets_after(_, _)
data_offsets_after(objs, data_len) ==
    IF objs = << >> THEN << >>
    ELSE << u32(data_len + Len(Head(objs))) >>
             \o data_offsets_after(Tail(objs), data_len + Len(Head(objs)))

RECURSIVE data_offsets(_, _)
data_offsets(objs, data_len) ==
    IF objs = << >> THEN << >>
    ELSE << u32(data_len) >> \o data_offsets(Tail(objs), data_len + Len(Head(objs)))

save_resource_file(objs) ==
    finalize_pointers(data_offsets(objs, 0)) \o Concat(objs)

(***************************************************************************)
(* Palette reindexing: sprite_transform.rs transform_index,                *)
(* reindex_rgba_vector and bin_palette.rs BinPalette::reindex.  u8         *)
(* arithmetic wraps in a release build and aborts in a debug build; the    *)
(* overflow field records that the step left 0..255.                       *)
(***************************************************************************)
transform_index_shifted(value_) ==
    IF ((value_ \div 8) + 2) % 4 = 0
    THEN [overflow |-> value_ - 8 < 0, value |-> (value_ - 8) % 256]
    ELSE IF ((value_ \div 8) + 1) % 4 = 0
    THEN [overflow |-> value_ + 8 > 255, value |-> (value_ + 8) % 256]
    ELSE [overflow |-> FALSE, value |-> value_]

transform_index(value_) ==
    IF ((value_ \div 8) + 2) % 4 = 0
    THEN [overflow |-> value_ - 8 < 0, value |-> (value_ - 8) % 256]
    ELSE IF ((value_ \div 8) + 3) % 4 = 0
    THEN [overflow |-> value_ + 8 > 255, value |-> (value_ + 8) % 256]
    ELSE [overflow |-> FALSE, value |-> value_]

reindex_rgba_vector(vector_) ==
    LET color_count == Len(vector_) \div 4
        new_index(index) == transform_index(index % 256).value
    IN  IF \E index \in 0..(color_count - 1) : 4 * new_index(index) + 3 >= Len(vector_)
        THEN [panic |-> TRUE, vector |-> << >>]
        ELSE [panic |-> FALSE,
              vector |-> [ k \in 1..Len(vector_) |->
                             IF (k - 1) \div 4 < color_count
                             THEN At(vector_, 4 * new_index((k - 1) \div 4) + ((k - 1) % 4))
                             ELSE 0 ]]

BinPalette_reindex(palette_) ==
    LET color_count == Len(palette_) \div 4
        new_index(color) == transform_index(color % 256).value
    IN  IF \E color \in 0..(color_count - 1) : 4 * new_index(color) + 3 >= Len(palette_)
        THEN [panic |-> TRUE, vector |-> palette_]
        ELSE [panic |-> FALSE,
              vector |-> [ k \in 1..Len(palette_) |->
                             IF (k - 1) \div 4 < color_count
                             THEN At(palette_, 4 * new_index((k - 1) \div 4) + ((k - 1) % 4))
                             ELSE 0 ]]

(***************************************************************************)
(* Cells: bin_cell.rs Cell::to_bin, Cell::serialize and                    *)
(* Cell::from_json_string.  Signed fields are integers in their range; the *)
(* JSON document is held as the CellJSON value that serde writes and reads *)
(* back, with box_type the u32 the source packs.                           *)
(***************************************************************************)
from_le_bytes_i16(b0, b1) ==
    IF b0 + 256 * b1 >= Half \div 2 THEN b0 + 256 * b1 - Half ELSE b0 + 256 * b1

from_le_bytes_u16(b0, b1) == b0 + 256 * b1

le_u32_at(bin_data, cursor) ==
    from_le_bytes_u32(At(bin_data, cursor), At(bin_data, cursor + 1),
                      At(bin_data, cursor + 2), At(bin_data, cursor + 3))

CELL_LEN_BASE == 16
CELL_LEN_BOX == 12

to_le_bytes_u16(v) == << v % 256, v \div 256 >>

to_le_bytes_i16(v) == to_le_bytes_u16(v % Half)

to_le_bytes_i8(v) == << v % 256 >>

u16_as_u32(v) == [hi |-> 0, lo |-> v]

\* `as u32` of an i8 extends the sign
i8_as_u32(v) == IF v < 0 THEN [hi |-> Half - 1, lo |-> Half + v] ELSE [hi |-> 0, lo |-> v]

u8_as_i8(b) == IF b >= 128 THEN b - 256 ELSE b

RECURSIVE BitOr(_, _)
BitOr(a, b) ==
    IF a = 0 THEN b
    ELSE IF b = 0 THEN a
    ELSE (IF a % 2 = 1 \/ b % 2 = 1 THEN 1 ELSE 0) + 2 * BitOr(a \div 2, b \div 2)

or_u32(a, b) == [hi |-> BitOr(a.hi, b.hi), lo |-> BitOr(a.lo, b.lo)]

\* w << 16 and w << 24: the bits shifted past bit 31 are lost
shl16_u32(w) == [hi |-> w.lo, lo |-> 0]

shl24_u32(w) == [hi |-> (w.lo % 256) * 256, lo |-> 0]

NoCell ==
    [boxes |-> << >>, sprite_x_offset |-> 0, sprite_y_offset |-> 0,
     unknown_1 |-> u32(0), sprite_index |-> 0, unknown_2 |-> 0]

NoObject ==
    [cells |-> << >>, sprites |-> << >>, scripts |-> << >>, palettes |-> << >>,
     has_palettes |-> FALSE]

NoScriptable ==
    [panic |-> FALSE, cell_slices |-> << >>, cells |-> << >>, sprites |-> << >>,
     scripts |-> << >>, palette_slices |-> << >>, palettes |-> << >>]

\* Option<Cell>: none is the None of from_binary_data
NoRead == [panic |-> FALSE, none |-> TRUE, cell |-> NoCell]

NoCellJSON ==
    [boxes |-> << >>, sprite_info |-> [index |-> 0, unk |-> u32(0), x_offset |-> 0, y_offset |-> 0]]

hitbox_to_bin(hitbox) ==
    to_le_bytes_i16(hitbox.x_offset) \o to_le_bytes_i16(hitbox.y_offset)
        \o to_le_bytes_u16(hitbox.width) \o to_le_bytes_u16(hitbox.height)
        \o to_le_bytes_u16(hitbox.box_type)
        \o to_le_bytes_i8(hitbox.crop_x_offset) \o to_le_bytes_i8(hitbox.crop_y_offset)

sprite_trailer_to_bin(cell_) ==
    to_le_bytes_i16(cell_.sprite_x_offset) \o to_le_bytes_i16(cell_.sprite_y_offset)
        \o to_le_bytes_u32(cell_.unknown_1)
        \o to_le_bytes_u16(cell_.sprite_index) \o to_le_bytes_u16(cell_.unknown_2)

RECURSIVE pad_and_align(_)
pad_and_align(bin_data) ==
    IF Len(bin_data) % 16 # 0 THEN pad_and_align(Append(bin_data, 255)) ELSE bin_data

Cell_to_bin_pad_first(cell_) ==
    pad_and_align(Append(
        to_le_bytes_u32(u32(Len(cell_.boxes)))
            \o Concat([ k \in 1..Len(cell_.boxes) |-> hitbox_to_bin(cell_.boxes[k]) ])
            \o sprite_trailer_to_bin(cell_), 255))

Cell_to_bin(cell_) ==
    pad_and_align(
        to_le_bytes_u32(u32(Len(cell_.boxes)))
            \o Concat([ k \in 1..Len(cell_.boxes) |-> hitbox_to_bin(cell_.boxes[k]) ])
            \o sprite_trailer_to_bin(cell_))

\* a length test that forgets the twelve bytes after the boxes
Cell_from_binary_data_short_test(bin_data) ==
    IF Len(bin_data) < 4 THEN NoRead
    ELSE LET hitbox_count == as_usize(le_u32_at(bin_data, 0))
         IN  IF Len(bin_data) < CELL_LEN_BOX * hitbox_count + 4 THEN NoRead
             ELSE IF CELL_LEN_BOX * hitbox_count + 15 >= Len(bin_data)
             THEN [NoRead EXCEPT !.panic = TRUE]
             ELSE [NoRead EXCEPT !.none = FALSE]

hitbox_from_bin(bin_data, hitbox_number) ==
    [x_offset |-> from_le_bytes_i16(At(bin_data, 12 * hitbox_number + 4),
                                    At(bin_data, 12 * hitbox_number + 5)),
     y_offset |-> from_le_bytes_i16(At(bin_data, 12 * hitbox_number + 6),
                                    At(bin_data, 12 * hitbox_number + 7)),
     width |-> from_le_bytes_u16(At(bin_data, 12 * hitbox_number + 8),
                                 At(bin_data, 12 * hitbox_number + 9)),
     height |-> from_le_bytes_u16(At(bin_data, 12 * hitbox_number + 10),
                                  At(bin_data, 12 * hitbox_number + 11)),
     box_type |-> from_le_bytes_u16(At(bin_data, 12 * hitbox_number + 12),
                                    At(bin_data, 12 * hitbox_number + 13)),
     crop_x_offset |-> u8_as_i8(At(bin_data, 12 * hitbox_number + 14)),
     crop_y_offset |-> u8_as_i8(At(bin_data, 12 * hitbox_number + 15))]

\* panic is an index past the end of bin_data, after the two length tests
Cell_from_binary_data(bin_data) ==
    IF Len(bin_data) < 4 THEN NoRead
    ELSE LET hitbox_count == as_usize(le_u32_at(bin_data, 0))
             cursor == hitbox_count * CELL_LEN_BOX + 4
         IN  IF Len(bin_data) < CELL_LEN_BOX * hitbox_count + CELL_LEN_BASE THEN NoRead
             ELSE IF cursor + 11 >= Len(bin_data) THEN [NoRead EXCEPT !.panic = TRUE]
             ELSE [panic |-> FALSE, none |-> FALSE,
                   cell |-> [boxes |-> [ k \in 1..hitbox_count |->
                                           hitbox_from_bin(bin_data, k - 1) ],
                             sprite_x_offset |-> from_le_bytes_i16(At(bin_data, cursor),
                                                                   At(bin_data, cursor + 1)),
                             sprite_y_offset |-> from_le_bytes_i16(At(bin_data, cursor + 2),
                                                                   At(bin_data, cursor + 3)),
                             unknown_1 |-> le_u32_at(bin_data, cursor + 4),
                             sprite_index |-> from_le_bytes_u16(At(bin_data, cursor + 8),
                                                                At(bin_data, cursor + 9)),
                             unknown_2 |-> from_le_bytes_u16(At(bin_data, cursor + 10),
                                                             At(bin_data, cursor + 11))]]

Cell_serialize(cell_) ==
    [boxes |-> [ k \in 1..Len(cell_.boxes) |->
                   LET this_box == cell_.boxes[k]
                   IN  [x_offset |-> this_box.x_offset,
                        y_offset |-> this_box.y_offset,
                        width |-> this_box.width,
                        height |-> this_box.height,
                        box_type |-> or_u32(or_u32(u16_as_u32(this_box.box_type),
                                                   shl16_u32(i8_as_u32(this_box.crop_x_offset))),
                                            shl24_u32(i8_as_u32(this_box.crop_y_offset)))] ],
     sprite_info |-> [index |-> cell_.sprite_index,
                      unk |-> cell_.unknown_1,
                      x_offset |-> cell_.sprite_x_offset,
                      y_offset |-> cell_.sprite_y_offset]]

Cell_from_json_string(json) ==
    [boxes |-> [ k \in 1..Len(json.boxes) |->
                   LET hitbox == json.boxes[k]
                   IN  [x_offset |-> hitbox.x_offset,
                        y_offset |-> hitbox.y_offset,
                        width |-> hitbox.width,
                        height |-> hitbox.height,
                        box_type |-> hitbox.box_type.lo,
                        crop_x_offset |-> u8_as_i8(hitbox.box_type.hi % 256),
                        crop_y_offset |-> u8_as_i8(hitbox.box_type.hi \div 256)] ],
     sprite_x_offset |-> json.sprite_info.x_offset,
     sprite_y_offset |-> json.sprite_info.y_offset,
     unknown_1 |-> json.sprite_info.unk,
     sprite_index |-> json.sprite_info.index,
     unknown_2 |-> 0]

(***************************************************************************)
(* Format identifier: bin_identify.rs.  Each predicate yields "true",      *)
(* "false" or "panic" (an index or slice out of range).  overflow_checks   *)
(* is the build's setting: with it an arithmetic overflow panics (debug),  *)
(* without it the arithmetic wraps (release).                              *)
(***************************************************************************)
WBND_SIGNATURE == [hi |-> 17486, lo |-> 16983]
VAGP_SIGNATURE == [hi |-> 22081, lo |-> 18288]
CHARIDX_SIGNATURE == [hi |-> 2090, lo |-> 8192]
WII_TPL_SIGNATURE == [hi |-> 32, lo |-> 44848]
PALETTE_SIGNATURE == [hi |-> 768, lo |-> 8192]

SPRITE_SIGNATURES ==
    { <<0, 0, 0, 0, 4, 0>>, <<0, 0, 0, 0, 8, 0>>, <<0, 0, 32, 0, 4, 0>>, <<0, 0, 32, 0, 8, 0>>,
      <<1, 0, 0, 0, 4, 0>>, <<1, 0, 0, 0, 8, 0>>, <<1, 0, 32, 0, 4, 0>>, <<1, 0, 32, 0, 8, 0>> }


less_u32(a, b) == a.hi < b.hi \/ (a.hi = b.hi /\ a.lo < b.lo)

\* u32 product by 8-bit limbs: the low 32 bits, and whether higher bits were lost
mul_term(a, b, i, k) == IF k - i \in 0..3 THEN a[i + 1] * b[k - i + 1] ELSE 0

RECURSIVE mul_limbs(_, _, _, _)
mul_limbs(a, b, k, carry) ==
    IF k = 8 THEN << >>
    ELSE LET t == mul_term(a, b, 0, k) + mul_term(a, b, 1, k) + mul_term(a, b, 2, k)
                  + mul_term(a, b, 3, k) + carry
         IN  << t % 256 >> \o mul_limbs(a, b, k + 1, t \div 256)

mul_u32(x, y) ==
    LET limbs == mul_limbs(to_le_bytes_u32(x), to_le_bytes_u32(y), 0, 0)
    IN  [overflow |-> \E k \in 5..8 : limbs[k] # 0,
         value |-> from_le_bytes_u32(limbs[1], limbs[2], limbs[3], limbs[4])]

be_u32_at(bin_data, cursor) ==
    from_be_bytes_u32(At(bin_data, cursor), At(bin_data, cursor + 1),
                      At(bin_data, cursor + 2), At(bin_data, cursor + 3))

signature_at(bin_data, cursor) == Slice(bin_data, cursor, cursor + 6)

Bool(b) == IF b THEN "true" ELSE "false"

identify_audio_wbnd(bin_data) ==
    LET pointers == get_pointers(bin_data, 0, TRUE)
    IN  IF Len(pointers) = 0 THEN "panic"
        ELSE Bool(At(pointers, 0) = WBND_SIGNATURE)

identify_audio_vagp(bin_data) ==
    LET pointers == get_pointers(bin_data, 0, TRUE)
    IN  IF Len(pointers) = 0 THEN "panic"
        ELSE LET p0 == as_usize(At(pointers, 0))
             IN  IF Len(bin_data) <= p0 THEN "false"
                 ELSE IF p0 + 3 >= Len(bin_data) THEN "panic"
                 ELSE Bool(be_u32_at(bin_data, p0) = VAGP_SIGNATURE)

identify_sprite(bin_data) ==
    IF Len(bin_data) < 32 THEN "false"
    ELSE Bool(signature_at(bin_data, 0) \in SPRITE_SIGNATURES)

identify_sprite_list(bin_data) ==
    LET header_pointers == get_pointers(bin_data, 0, FALSE)
    IN  IF Len(header_pointers) < 1 THEN "false"
        ELSE LET cursor == as_usize(At(header_pointers, 0))
             IN  IF cursor + 5 >= Len(bin_data) THEN "false"
                 ELSE Bool(signature_at(bin_data, cursor) \in SPRITE_SIGNATURES)

identify_sprite_list_select(bin_data, overflow_checks_) ==
    IF identify_sprite_list(bin_data) # "true" THEN "false"
    ELSE
    LET header_pointers == get_pointers(bin_data, 0, FALSE)
        pointer_select == IF Len(header_pointers) > 179
                          THEN as_usize(At(header_pointers, 178))
                          ELSE as_usize(At(header_pointers, Len(header_pointers) - 1))
        bitmask_end == IF Len(header_pointers) > 179
                       THEN as_usize(At(header_pointers, 179))
                       ELSE Len(bin_data)
    IN  IF pointer_select > bitmask_end \/ bitmask_end > Len(bin_data) THEN "panic"
        ELSE
        LET bitmask == Slice(bin_data, pointer_select, bitmask_end)
        IN  IF Len(bitmask) < 8 THEN "panic"
            ELSE
            LET product == mul_u32(le_u32_at(bitmask, 0), le_u32_at(bitmask, 4))
            IN  IF product.overflow /\ overflow_checks_ THEN "panic"
                ELSE IF as_usize(product.value) >= OutOfRange THEN "false"
                ELSE LET target_len == 8 + as_usize(product.value)
                     IN  Bool(Len(bitmask) = target_len + (target_len % 16))

identify_jpf_plain_text(bin_data) ==
    LET header_pointers == get_pointers(bin_data, 0, FALSE)
    IN  IF Len(header_pointers) < 2 THEN "false"
        ELSE
        LET cursor_char_idx == as_usize(At(header_pointers, 0))
            cursor_sprite == as_usize(At(header_pointers, 1))
        IN  IF cursor_char_idx + 3 >= Len(bin_data) THEN "false"
            ELSE IF cursor_sprite + 5 >= Len(bin_data) THEN "false"
            ELSE Bool(/\ be_u32_at(bin_data, cursor_char_idx) = CHARIDX_SIGNATURE
                      /\ signature_at(bin_data, cursor_sprite) \in SPRITE_SIGNATURES)

identify_wii_tpl(bin_data) ==
    IF Len(bin_data) < 4 THEN "panic"
    ELSE Bool(be_u32_at(bin_data, 0) = WII_TPL_SIGNATURE)

\* the "speedup for player objects": "ok" when the palette magic is found
scriptable_palette_check(bin_data, header_pointers) ==
    LET hp3 == as_usize(At(header_pointers, 3))
    IN  IF hp3 + 3 >= Len(bin_data) THEN "panic"
        ELSE LET palette_pointer == hp3 + as_usize(le_u32_at(bin_data, hp3))
             IN  IF palette_pointer + 3 >= Len(bin_data) THEN "panic"
                 ELSE Bool(be_u32_at(bin_data, palette_pointer) = PALETTE_SIGNATURE)

\* up to 3 pointers read at the cell table
RECURSIVE scriptable_cell_pointers(_, _, _)
scriptable_cell_pointers(bin_data, cursor_cell_pointers, cell_pointers) ==
    IF Len(bin_data) <= cursor_cell_pointers + 3 THEN cell_pointers
    ELSE LET this_pointer == le_u32_at(bin_data, cursor_cell_pointers)
         IN  IF this_pointer = SENTINEL THEN cell_pointers
             ELSE IF Len(cell_pointers) + 1 > 2 THEN Append(cell_pointers, this_pointer)
             ELSE scriptable_cell_pointers(bin_data, cursor_cell_pointers + 4,
                                           Append(cell_pointers, this_pointer))

\* the cell sub-blob from start to end has the length its box count gives
scriptable_cell_check(bin_data, start, end) ==
    IF start > end \/ end > Len(bin_data) THEN "panic"
    ELSE LET this_cell == Slice(bin_data, start, end)
         IN  IF Len(this_cell) < 4 THEN "panic"
             ELSE LET box_count == as_usize(le_u32_at(this_cell, 0))
                  IN  IF box_count >= OutOfRange THEN "false"
                      ELSE LET target_len == CELL_LEN_BASE + CELL_LEN_BOX * box_count
                               aligned == IF target_len % 16 # 0
                                          THEN target_len + (16 - (target_len % 16))
                                          ELSE target_len
                           IN  Bool(Len(this_cell) = aligned)

RECURSIVE scriptable_cells_loop(_, _, _, _, _)
scriptable_cells_loop(bin_data, cursor, starts, ends, pointer) ==
    IF pointer > Len(starts) THEN "true"
    ELSE LET r == scriptable_cell_check(bin_data, cursor + starts[pointer], ends[pointer])
         IN  IF r # "true" THEN r
             ELSE scriptable_cells_loop(bin_data, cursor, starts, ends, pointer + 1)

scriptable_sprite_check(bin_data, header_pointers) ==
    LET cursor_sprite_pointers == as_usize(At(header_pointers, 1))
    IN  IF Len(bin_data) <= cursor_sprite_pointers + 3 THEN "false"
        ELSE LET sprite_pointer == cursor_sprite_pointers
                                   + as_usize(le_u32_at(bin_data, cursor_sprite_pointers))
             IN  IF Len(bin_data) < sprite_pointer + 32 THEN "false"
                 ELSE Bool(signature_at(bin_data, sprite_pointer) \in SPRITE_SIGNATURES)

scriptable_cell_pass(bin_data, header_pointers, overflow_checks_) ==
    LET cursor == as_usize(At(header_pointers, 0))
        read == scriptable_cell_pointers(bin_data, cursor, << >>)
        pushed == Len(read) < 2
        underflow == pushed /\ less_u32(At(header_pointers, 1), At(header_pointers, 0))
        n == IF pushed THEN Len(read) + 1 ELSE Len(read)
        \* start offsets relative to cursor, and absolute ends, of the n - 1 cells;
        \* a pushed end is cursor + (header_pointers[1] - header_pointers[0])
        starts == [ k \in 1..(n - 1) |-> as_usize(read[k]) ]
        ends == [ k \in 1..(n - 1) |->
                    IF k + 1 <= Len(read) THEN cursor + as_usize(read[k + 1])
                    ELSE as_usize(At(header_pointers, 1)) ]
    IN  IF underflow /\ overflow_checks_ THEN "panic"
        ELSE scriptable_cells_loop(bin_data, cursor, starts, ends, 1)

identify_scriptable(bin_data, overflow_checks_) ==
    LET header_pointers == get_pointers(bin_data, 0, FALSE)
    IN  IF Len(header_pointers) < 2 THEN "false"
        ELSE IF Len(header_pointers) > 4 THEN "false"
        ELSE
        LET speedup == IF Len(header_pointers) = 4
                       THEN scriptable_palette_check(bin_data, header_pointers)
                       ELSE "true"
        IN  IF speedup # "true" THEN speedup
            ELSE LET cells == scriptable_cell_pass(bin_data, header_pointers, overflow_checks_)
                 IN  IF cells # "true" THEN cells
                     ELSE scriptable_sprite_check(bin_data, header_pointers)

multi_scriptable_object_check(bin_data, cursor_object) ==
    LET pointers_this_object == get_pointers(bin_data, cursor_object, FALSE)
    IN  IF Len(pointers_this_object) # 3 THEN "false"
        ELSE LET at == cursor_object + as_usize(At(pointers_this_object, 1))
             IN  IF at + 3 >= Len(bin_data) THEN "panic"
                 ELSE LET cursor_sprite == at + as_usize(le_u32_at(bin_data, at))
                      IN  IF cursor_sprite + 5 >= Len(bin_data) THEN "panic"
                          ELSE Bool(signature_at(bin_data, cursor_sprite) \in SPRITE_SIGNATURES)

RECURSIVE multi_scriptable_loop(_, _, _)
multi_scriptable_loop(bin_data, header_pointers, pointer) ==
    IF pointer >= Len(header_pointers) THEN "true"
    ELSE LET r == multi_scriptable_object_check(bin_data, as_usize(At(header_pointers, pointer)))
         IN  IF r # "true" THEN r
             ELSE multi_scriptable_loop(bin_data, header_pointers, pointer + 1)

identify_multi_scriptable(bin_data) ==
    multi_scriptable_loop(bin_data, get_pointers(bin_data, 0, FALSE), 0)

\* identify_object with SpriteList tested before SpriteListSelect
identify_object_list_first(bin_data, overflow_checks_) ==
    LET wbnd == identify_audio_wbnd(bin_data)
        vagp == identify_audio_vagp(bin_data)
        sprite == identify_sprite(bin_data)
        sprite_list == identify_sprite_list(bin_data)
        select == identify_sprite_list_select(bin_data, overflow_checks_)
        jpf == identify_jpf_plain_text(bin_data)
        wii_tpl == identify_wii_tpl(bin_data)
        scriptable == identify_scriptable(bin_data, overflow_checks_)
        multi_scriptable == identify_multi_scriptable(bin_data)
    IN  IF wbnd # "false" THEN (IF wbnd = "true" THEN "Unsupported" ELSE "panic")
        ELSE IF vagp # "false" THEN (IF vagp = "true" THEN "Unsupported" ELSE "panic")
        ELSE IF sprite # "false" THEN (IF sprite = "true" THEN "Sprite" ELSE "panic")
        ELSE IF sprite_list # "false"
             THEN (IF sprite_list = "true" THEN "SpriteList" ELSE "panic")
        ELSE IF select # "false" THEN (IF select = "true" THEN "SpriteListSelect" ELSE "panic")
        ELSE IF jpf # "false" THEN (IF jpf = "true" THEN "JPFPlainText" ELSE "panic")
        ELSE IF wii_tpl # "false" THEN (IF wii_tpl = "true" THEN "WiiTPL" ELSE "panic")
        ELSE IF scriptable # "false"
             THEN (IF scriptable = "true" THEN "Scriptable" ELSE "panic")
        ELSE IF multi_scriptable # "false"
             THEN (IF multi_scriptable = "true" THEN "MultiScriptable" ELSE "panic")
        ELSE "Unsupported"

identify_object(bin_data, overflow_checks_) ==
    LET wbnd == identify_audio_wbnd(bin_data)
        vagp == identify_audio_vagp(bin_data)
        sprite == identify_sprite(bin_data)
        select == identify_sprite_list_select(bin_data, overflow_checks_)
        sprite_list == identify_sprite_list(bin_data)
        jpf == identify_jpf_plain_text(bin_data)
        wii_tpl == identify_wii_tpl(bin_data)
        scriptable == identify_scriptable(bin_data, overflow_checks_)
        multi_scriptable == identify_multi_scriptable(bin_data)
    IN  IF wbnd # "false" THEN (IF wbnd = "true" THEN "Unsupported" ELSE "panic")
        ELSE IF vagp # "false" THEN (IF vagp = "true" THEN "Unsupported" ELSE "panic")
        ELSE IF sprite # "false" THEN (IF sprite = "true" THEN "Sprite" ELSE "panic")
        ELSE IF select # "false" THEN (IF select = "true" THEN "SpriteListSelect" ELSE "panic")
        ELSE IF sprite_list # "false"
             THEN (IF sprite_list = "true" THEN "SpriteList" ELSE "panic")
        ELSE IF jpf # "false" THEN (IF jpf = "true" THEN "JPFPlainText" ELSE "panic")
        ELSE IF wii_tpl # "false" THEN (IF wii_tpl = "true" THEN "WiiTPL" ELSE "panic")
        ELSE IF scriptable # "false"
             THEN (IF scriptable = "true" THEN "Scriptable" ELSE "panic")
        ELSE IF multi_scriptable # "false"
             THEN (IF multi_scriptable = "true" THEN "MultiScriptable" ELSE "panic")
        ELSE "Unsupported"

(***************************************************************************)
(* Sprite records: bin_sprite.rs (header), sprite_transform.rs (4 bpp      *)
(* packing) and decompressor.rs.  The decompressor's loop is split at its  *)
(* iterations: decompress_begin is the code before the loop, literal_mode  *)
(* and token_mode are the two arms of one iteration, decompress_finish is  *)
(* the code after the loop.                                                *)
(***************************************************************************)
HEADER_SIZE == 16

get_header(data) ==
    [compressed |-> At(data, 0) = 1,
     clut |-> from_le_bytes_u16(At(data, 2), At(data, 3)),
     bit_depth |-> from_le_bytes_u16(At(data, 4), At(data, 5)),
     width |-> from_le_bytes_u16(At(data, 6), At(data, 7)),
     height |-> from_le_bytes_u16(At(data, 8), At(data, 9)),
     tw |-> from_le_bytes_u16(At(data, 10), At(data, 11)),
     th |-> from_le_bytes_u16(At(data, 12), At(data, 13)),
     hash |-> from_le_bytes_u16(At(data, 14), At(data, 15))]

make_header(compressed, clut, bit_depth, width, height, tw, th, hash) ==
    << IF compressed THEN 1 ELSE 0, 0 >>
        \o to_le_bytes_u16(clut) \o to_le_bytes_u16(bit_depth)
        \o to_le_bytes_u16(width) \o to_le_bytes_u16(height)
        \o to_le_bytes_u16(tw) \o to_le_bytes_u16(th) \o to_le_bytes_u16(hash)

min_u8(a, b) == IF a < b THEN a ELSE b

\* flip_: the first pixel of a byte is its low nibble
bpp_from_4(input_pixels, flip_) ==
    [ i \in 1..(2 * Len(input_pixels)) |->
        LET byte == input_pixels[(i + 1) \div 2]
        IN  IF (i % 2 = 1) = flip_ THEN byte % 16 ELSE byte \div 16 ]

\* packing that keeps the low four bits of a pixel instead of clamping it
bpp_to_4_masked(input_pixels, flip_) ==
    [ j \in 1..((Len(input_pixels) + 1) \div 2) |->
        LET index == 2 * (j - 1)
        IN  IF index + 1 < Len(input_pixels)
            THEN 16 * (At(input_pixels, index + (IF flip_ THEN 1 ELSE 0)) % 16)
                    + (At(input_pixels, index + (IF flip_ THEN 0 ELSE 1)) % 16)
            ELSE IF flip_ THEN At(input_pixels, index) % 16
            ELSE 16 * (At(input_pixels, index) % 16) ]

bpp_to_4(input_pixels, flip_) ==
    [ j \in 1..((Len(input_pixels) + 1) \div 2) |->
        LET index == 2 * (j - 1)
        IN  IF index + 1 < Len(input_pixels)
            THEN 16 * min_u8(At(input_pixels, index + (IF flip_ THEN 1 ELSE 0)), 15)
                    + min_u8(At(input_pixels, index + (IF flip_ THEN 0 ELSE 1)), 15)
            ELSE IF flip_ THEN min_u8(At(input_pixels, index), 15)
            ELSE 16 * min_u8(At(input_pixels, index), 15) ]

\* BitReader<BigEndian>: bit number position of byte_data, most significant bit first
bit_at(bytes, position) == (At(bytes, position \div 8) \div (2 ^ (7 - (position % 8)))) % 2

RECURSIVE read_bits(_, _, _, _)
read_bits(bytes, position, bits, acc) ==
    IF bits = 0 THEN acc
    ELSE read_bits(bytes, position + 1, bits - 1, 2 * acc + bit_at(bytes, position))

\* whether a read of bits bits at position succeeds (otherwise unwrap panics)
can_read(bytes, position, bits) == position + bits <= 8 * Len(bytes)

swap_pairs(bytes) ==
    [ i \in 1..Len(bytes) |-> IF i % 2 = 1 THEN bytes[i + 1] ELSE bytes[i - 1] ]

\* decompress up to the loop: palette, iterations and byte_data
\* the iterations and the byte data decompress reads at pointer
read_compressed(bin_data, pointer) ==
    IF pointer + 3 >= Len(bin_data) \/ (Len(bin_data) - (pointer + 4)) % 2 = 1
    THEN [panic |-> TRUE, iterations |-> u32(0), byte_data |-> << >>]
    ELSE [panic |-> FALSE,
          iterations |-> from_le_bytes_u32(At(bin_data, pointer + 2), At(bin_data, pointer + 3),
                                           At(bin_data, pointer), At(bin_data, pointer + 1)),
          byte_data |-> swap_pairs(Slice(bin_data, pointer + 4, Len(bin_data)))]

decompress_begin(bin_data, header, overflow_checks_) ==
    LET has_palette == header.clut = 32
        pow_overflow == has_palette /\ header.bit_depth >= 16
        color_count == IF ~has_palette \/ pow_overflow THEN 0 ELSE 2 ^ header.bit_depth
        pointer == HEADER_SIZE + 4 * color_count
        read == read_compressed(bin_data, pointer)
        panics == \/ pow_overflow /\ overflow_checks_
                  \/ color_count > 0 /\ pointer > Len(bin_data)
                  \/ read.panic
    IN  IF panics
        THEN [panic |-> TRUE, palette |-> << >>, iterations |-> 0, byte_data |-> << >>]
        ELSE [panic |-> FALSE,
              palette |-> Slice(bin_data, HEADER_SIZE, pointer),
              iterations |-> as_usize(read.iterations),
              byte_data |-> read.byte_data]

\* a literal arm without the stray byte guard rail: always two bytes
literal_mode_unguarded(bytes, position, pixels_, pixel_count) ==
    IF ~can_read(bytes, position, 16)
    THEN [panic |-> TRUE, position |-> position, pixel_vector |-> pixels_]
    ELSE [panic |-> FALSE, position |-> position + 16,
          pixel_vector |-> pixels_ \o << read_bits(bytes, position, 8, 0),
                                         read_bits(bytes, position + 8, 8, 0) >>]

\* literal arm, position is that of the bit after the mode bit
literal_mode(bytes, position, pixels_, pixel_count) ==
    IF ~can_read(bytes, position, 8)
    THEN [panic |-> TRUE, position |-> position, pixel_vector |-> pixels_]
    ELSE LET first == Append(pixels_, read_bits(bytes, position, 8, 0))
         IN  IF Len(first) + 1 < pixel_count
             THEN IF ~can_read(bytes, position + 8, 8)
                  THEN [panic |-> TRUE, position |-> position + 8, pixel_vector |-> first]
                  ELSE [panic |-> FALSE, position |-> position + 16,
                        pixel_vector |-> Append(first, read_bits(bytes, position + 8, 8, 0))]
             ELSE [panic |-> FALSE, position |-> position + 8, pixel_vector |-> first]

\* a copy that reads every byte from the buffer as it was before the token,
\* and zero past its end, instead of reading what the copy has just written
copy_from_snapshot(pixels_, source, first, last) ==
    pixels_ \o [ k \in 1..(last - first) |->
                    IF source + first + k - 1 < Len(pixels_)
                    THEN At(pixels_, source + first + k - 1) ELSE 0 ]

\* for pixel in first..(last - 1): push pixel_vector[source + pixel], one byte at a
\* time, so that a copy may read the bytes it has just written
RECURSIVE copy_from_window(_, _, _, _)
copy_from_window(pixels_, source, first, last) ==
    IF last <= first THEN pixels_
    ELSE IF last = first + 1 THEN Append(pixels_, At(pixels_, source + first))
    ELSE LET middle == (first + last) \div 2
             copied == copy_from_window(pixels_, source, first, middle)
         IN  IF Len(copied) = Len(pixels_) + (middle - first)
             THEN copy_from_window(copied, source, middle, last)
             ELSE copied

\* back-reference arm, position is that of the bit after the mode bit
token_mode(bytes, position, pixels_) ==
    IF ~can_read(bytes, position, 16)
    THEN [panic |-> TRUE, position |-> position, pixel_vector |-> pixels_]
    ELSE LET window_origin == IF Len(pixels_) > 512 THEN Len(pixels_) - 512 ELSE 0
             offset == read_bits(bytes, position, 9, 0)
             length == 3 + read_bits(bytes, position + 9, 7, 0)
         IN  IF window_origin + offset >= Len(pixels_)
             THEN [panic |-> TRUE, position |-> position + 16, pixel_vector |-> pixels_]
             ELSE [panic |-> FALSE, position |-> position + 16,
                   pixel_vector |-> copy_from_window(pixels_, window_origin + offset, 0, length)]

\* a resize that only ever pads
resize_pad_only(vec, new_len, fill) ==
    IF new_len <= Len(vec) THEN vec
    ELSE vec \o [ i \in 1..(new_len - Len(vec)) |-> fill ]

resize(vec, new_len, fill) ==
    IF new_len <= Len(vec) THEN SubSeq(vec, 1, new_len)
    ELSE vec \o [ i \in 1..(new_len - Len(vec)) |-> fill ]

\* decompress after the loop: bit depth management and resize
decompress_finish(pixels_, header, palette_, flip_) ==
    IF header.bit_depth \notin {4, 8}
    THEN [panic |-> TRUE, width |-> header.width, height |-> header.height,
          pixels |-> << >>, palette |-> palette_]
    ELSE [panic |-> FALSE, width |-> header.width, height |-> header.height,
          pixels |-> resize(IF header.bit_depth = 4 THEN bpp_from_4(pixels_, flip_) ELSE pixels_,
                            header.width * header.height, 0),
          palette |-> palette_]

(***************************************************************************)
(* The compressor (sprite_compress::compress) as the specification gives   *)
(* it: a greedy scan that emits the longest match of 3 to 130 bytes found  *)
(* in the trailing 512-byte window, else a literal token, whose second     *)
(* byte is present exactly when the decoder will read one.  The stream is  *)
(* written most significant bit first and padded with zero bits to whole   *)
(* 16-bit words.                                                           *)
(***************************************************************************)
WINDOW_SIZE == 512
MATCH_MIN == 3
MATCH_MAX == 130

to_bits(v, bits) == [ i \in 1..bits |-> (v \div (2 ^ (bits - i))) % 2 ]

\* how many of the bytes first..(last - 1) after source and after cursor agree,
\* counted from first up to the first difference
RECURSIVE match_length(_, _, _, _, _)
match_length(bytes, source, cursor, first, last) ==
    IF last <= first THEN 0
    ELSE IF last = first + 1
    THEN (IF At(bytes, source + first) = At(bytes, cursor + first) THEN 1 ELSE 0)
    ELSE LET middle == (first + last) \div 2
             head == match_length(bytes, source, cursor, first, middle)
         IN  IF head < middle - first THEN head
             ELSE head + match_length(bytes, source, cursor, middle, last)

\* the longest match for cursor among the window offsets first..(last - 1); the
\* offset nearest the window start wins a tie
RECURSIVE longest_match(_, _, _, _, _)
longest_match(bytes, window_origin, cursor, first, last) ==
    IF last <= first THEN [offset |-> 0, length |-> 0]
    ELSE IF last = first + 1
    THEN LET limit == IF Len(bytes) - cursor < MATCH_MAX THEN Len(bytes) - cursor
                      ELSE MATCH_MAX
         IN  [offset |-> first,
              length |-> match_length(bytes, window_origin + first, cursor, 0, limit)]
    ELSE LET middle == (first + last) \div 2
             low == longest_match(bytes, window_origin, cursor, first, middle)
             high == longest_match(bytes, window_origin, cursor, middle, last)
         IN  IF high.length > low.length THEN high ELSE low

RECURSIVE compress_scan(_, _, _, _, _)
compress_scan(bytes, pixel_count, cursor, iterations_, bits) ==
    IF cursor >= Len(bytes) THEN [iterations |-> iterations_, bits |-> bits]
    ELSE LET window_origin == IF cursor > WINDOW_SIZE THEN cursor - WINDOW_SIZE ELSE 0
             match == longest_match(bytes, window_origin, cursor, 0,
                                    IF cursor - window_origin < WINDOW_SIZE
                                    THEN cursor - window_origin ELSE WINDOW_SIZE)
         IN  IF match.length >= MATCH_MIN
             THEN compress_scan(bytes, pixel_count, cursor + match.length, iterations_ + 1,
                      bits \o <<0>> \o to_bits(match.offset, 9)
                           \o to_bits(match.length - MATCH_MIN, 7))
             ELSE IF cursor + 2 < pixel_count
             THEN compress_scan(bytes, pixel_count, cursor + 2, iterations_ + 1,
                      bits \o <<1>> \o to_bits(At(bytes, cursor), 8)
                           \o to_bits(IF cursor + 1 < Len(bytes) THEN At(bytes, cursor + 1)
                                       ELSE 0, 8))
             ELSE compress_scan(bytes, pixel_count, cursor + 1, iterations_ + 1,
                      bits \o <<1>> \o to_bits(At(bytes, cursor), 8))

bits_to_bytes(bits) ==
    LET padded == bits \o [ i \in 1..((16 - (Len(bits) % 16)) % 16) |-> 0 ]
    IN  [ j \in 1..(Len(padded) \div 8) |-> 128 * padded[8 * j - 7] + 64 * padded[8 * j - 6] + 32 * padded[8 * j - 5]
                                               + 16 * padded[8 * j - 4] + 8 * padded[8 * j - 3]
                                               + 4 * padded[8 * j - 2] + 2 * padded[8 * j - 1]
                                               + padded[8 * j] ]

compress(sprite_data_, flip_) ==
    LET bytes == IF sprite_data_.bit_depth = 4 THEN bpp_to_4(sprite_data_.pixels, flip_)
                 ELSE sprite_data_.pixels
        scan == compress_scan(bytes, sprite_data_.width * sprite_data_.height, 0, 0, << >>)
    IN  [iterations |-> scan.iterations, stream |-> bits_to_bytes(scan.bits)]

RECURSIVE BitXor(_, _)
BitXor(a, b) ==
    IF a = 0 THEN b
    ELSE IF b = 0 THEN a
    ELSE (IF a % 2 # b % 2 THEN 1 ELSE 0) + 2 * BitXor(a \div 2, b \div 2)

RECURSIVE generate_hash(_, _, _)
generate_hash(stream, byte, hash) ==
    IF byte >= Len(stream) \div 2 THEN hash
    ELSE generate_hash(stream, byte + 1,
                       BitXor(hash, BitOr(At(stream, byte), 256 * At(stream, byte + 1))))

\* the iterations in byte order [2, 3, 0, 1] and the stream with the bytes of
\* each pair swapped, as to_bin and save_sprites write them
write_compressed(iterations_u32, stream) ==
    << iterations_u32.hi % 256, iterations_u32.hi \div 256,
       iterations_u32.lo % 256, iterations_u32.lo \div 256 >>
        \o swap_pairs(SubSeq(stream, 1, 2 * (Len(stream) \div 2)))

to_bin(self, flip_) ==
    LET compressed_data == compress(self, flip_)
        hash == generate_hash(compressed_data.stream, 0, 0)
        header == make_header(TRUE, IF Len(self.palette) # 0 THEN 32 ELSE 0, self.bit_depth,
                              self.width, self.height, 0, 0, hash)
    IN  header \o self.palette
            \o write_compressed(u32(compressed_data.iterations), compressed_data.stream)

(***************************************************************************)
(* Bounds of the pointer-table scenarios                                   *)
(***************************************************************************)
MaxObjects == 3
MaxObjectLen == 2
MaxPointers == 4

BlobBytes == {0, 255}
Blobs == SeqsUpTo(BlobBytes, MaxObjectLen)
ObjectLists == SeqsUpTo(Blobs, MaxObjects)
Offsets == {u32(0), u32(1), u32(16), u32(65535)}
PointerLists == SeqsUpTo(Offsets, MaxPointers)

NoVector == [panic |-> FALSE, vector |-> << >>]
NoValue == [overflow |-> FALSE, value |-> 0]

NoSprite == [width |-> 0, height |-> 0, bit_depth |-> 0, pixels |-> << >>, palette |-> << >>]
NoHeader == get_header([ i \in 1..HEADER_SIZE |-> 0 ])
NoSpriteData == [panic |-> FALSE, width |-> 0, height |-> 0, pixels |-> << >>, palette |-> << >>]
NoFrame == [panic |-> FALSE, iterations |-> u32(0), byte_data |-> << >>]
\* Option<SpriteData>: none is the None of get_bin_data
NoRaw == [none |-> TRUE, data |-> NoSpriteData]
NoDictionary == [panic |-> FALSE, entries |-> << >>]
tableIdle == objects = << >> /\ file_vector = << >> /\ parsed = [panic |-> FALSE, objects |-> << >>]
pointerIdle == source_pointers = << >> /\ target_vector = << >>
indexIdle == value = 0 /\ value_once = NoValue /\ value_twice = NoValue
cellIdle == cell = NoCell /\ cell_bin = << >> /\ cell_json = NoCellJSON /\ cell_back = NoCell
frameIdle == frame_iterations = u32(0) /\ frame_stream = << >> /\ frame_record = << >> /\ frame_read = NoFrame
rawIdle == raw_record = << >> /\ raw_data = NoRaw /\ raw_loaded = NoSpriteData
scriptableIdle == object_dictionary = NoObject /\ object_vector = << >> /\ object_binary = << >> /\ loaded_scriptable = NoScriptable
binaryIdle == cell_buffer = << >> /\ cell_read = NoRead
scriptIdle == script_data = << >> /\ has_play_data = FALSE /\ play_data_array = << >> /\ prelude_cursor = 0 /\ script_cursor = 0 /\ script_actions = << >> /\ script_out = << >>
nibbleIdle == nibble_flip = FALSE /\ nibble_input = << >> /\ nibble_once = << >> /\ nibble_twice = << >>
alphaIdle == palette_rgba = << >> /\ palette_doubled = [panic |-> FALSE, palette |-> << >>]
signatureIdle == entry_data = << >> /\ read_data = << >> /\ entry_decrypted = FALSE /\ load_error = "not called"
decryptIdle == file_path = << >> /\ encrypted_data = << >> /\ name_seed = u32(0) /\ twister = [index |-> 0, table |-> << >>] /\ numbers = << >> /\ last_out = u32(0) /\ output = << >>
archiveIdle == archive = << >> /\ resource_dictionary = NoDictionary
spriteIdle == bin_sprite = NoSprite /\ sprite_bin = << >> /\ flip = FALSE /\ bin_header = NoHeader /\ embedded_palette = << >> /\ byte_data = << >> /\ bit_position = 0 /\ iterations = 0 /\ iteration = 0 /\ pixel_vector = << >> /\ sprite_data = NoSpriteData
identifyIdle == candidate = << >> /\ object_type = "none"
rgbaIdle ==
    /\ vector = << >> /\ vector_once = NoVector /\ vector_twice = NoVector
    /\ palette = << >> /\ palette_calls = 0

(***************************************************************************)
(* SpecTable: an archive of passthrough blobs is written and parsed back.  *)
(***************************************************************************)
InitTable ==
    /\ pc = "new"
    /\ overflow_checks \in BOOLEAN
    /\ objects \in ObjectLists
    /\ file_vector = << >>
    /\ parsed = [panic |-> FALSE, objects |-> << >>]
    /\ pointerIdle /\ indexIdle /\ rgbaIdle /\ cellIdle /\ identifyIdle /\ spriteIdle /\ archiveIdle /\ decryptIdle /\ signatureIdle /\ alphaIdle /\ nibbleIdle /\ scriptIdle /\ binaryIdle /\ scriptableIdle /\ rawIdle /\ frameIdle

SaveResourceFile ==
    /\ pc = "new"
    /\ file_vector' = save_resource_file(objects)
    /\ pc' = "saved"
    /\ UNCHANGED <<overflow_checks, objects, parsed, pointerVars, indexVars, rgbaVars, cellVars, identifyVars, spriteVars, archiveVars, decryptVars, signatureVars, alphaVars, nibbleVars, scriptVars, binaryVars, scriptableVars, rawVars, frameVars>>

GetObjects ==
    /\ pc = "saved"
    /\ parsed' = get_objects(file_vector)
    /\ pc' = "loaded"
    /\ UNCHANGED <<overflow_checks, objects, file_vector, pointerVars, indexVars, rgbaVars, cellVars, identifyVars, spriteVars, archiveVars, decryptVars, signatureVars, alphaVars, nibbleVars, scriptVars, binaryVars, scriptableVars, rawVars, frameVars>>

NextTable == SaveResourceFile \/ GetObjects

vars == <<pc, overflow_checks, tableVars, pointerVars, indexVars, rgbaVars, cellVars, identifyVars, spriteVars, archiveVars, decryptVars, signatureVars, alphaVars, nibbleVars, scriptVars, binaryVars, scriptableVars, rawVars, frameVars>>

SpecTable == InitTable /\ [][NextTable]_vars

(***************************************************************************)
(* SpecPointers: finalize_pointers on an arbitrary list of offsets.        *)
(***************************************************************************)
InitPointers ==
    /\ pc = "new"
    /\ overflow_checks \in BOOLEAN
    /\ source_pointers \in PointerLists
    /\ target_vector = << >>
    /\ tableIdle /\ indexIdle /\ rgbaIdle /\ cellIdle /\ identifyIdle /\ spriteIdle /\ archiveIdle /\ decryptIdle /\ signatureIdle /\ alphaIdle /\ nibbleIdle /\ scriptIdle /\ binaryIdle /\ scriptableIdle /\ rawIdle /\ frameIdle

FinalizePointers ==
    /\ pc = "new"
    /\ target_vector' = finalize_pointers(source_pointers)
    /\ pc' = "finalized"
    /\ UNCHANGED <<overflow_checks, source_pointers, tableVars, indexVars, rgbaVars, cellVars, identifyVars, spriteVars, archiveVars, decryptVars, signatureVars, alphaVars, nibbleVars, scriptVars, binaryVars, scriptableVars, rawVars, frameVars>>

NextPointers == FinalizePointers

SpecPointers == InitPointers /\ [][NextPointers]_vars

(***************************************************************************)
(* C1: writing any list of blobs with save_resource_file and parsing the   *)
(* file with get_objects gives back the same blobs, same count and order.  *)
(***************************************************************************)
C1_TableRoundTrip ==
    pc = "loaded" => parsed = [panic |-> FALSE, objects |-> objects]

(***************************************************************************)
(* C2: finalize_pointers emits T little-endian u32 entries, T the smallest *)
(* multiple of 4 that is >= n+1; entries 0..n-1 are the input offsets plus *)
(* 4*T and entries n..T-1 are 0xFFFFFFFF.                                  *)
(***************************************************************************)
TableEntries(n) == CHOOSE t \in (n + 1)..(n + 4) : t % 4 = 0

EntryAt(bytes, k) ==
    from_le_bytes_u32(At(bytes, 4 * k), At(bytes, 4 * k + 1),
                      At(bytes, 4 * k + 2), At(bytes, 4 * k + 3))

C2_FinalizeLayout ==
    pc = "finalized" =>
        LET n == Len(source_pointers)
            T == TableEntries(n)
        IN  /\ Len(target_vector) = 4 * T
            /\ \A k \in 0..(n - 1) : as_usize(EntryAt(target_vector, k)) = as_usize(At(source_pointers, k)) + 4 * T
            /\ \A k \in n..(T - 1) : EntryAt(target_vector, k) = SENTINEL

C2_Witness ==
    /\ pc = "finalized"
    /\ Len(source_pointers) = 4
    /\ Len(target_vector) = 32
    /\ EntryAt(target_vector, 3) = u32(65535 + 32)
    /\ EntryAt(target_vector, 4) = SENTINEL

(***************************************************************************)
(* SpecIndex: transform_index applied twice to every byte value.           *)
(***************************************************************************)
InitIndex ==
    /\ pc = "new"
    /\ overflow_checks \in BOOLEAN
    /\ value \in 0..255
    /\ value_once = NoValue
    /\ value_twice = NoValue
    /\ tableIdle /\ pointerIdle /\ rgbaIdle /\ cellIdle /\ identifyIdle /\ spriteIdle /\ archiveIdle /\ decryptIdle /\ signatureIdle /\ alphaIdle /\ nibbleIdle /\ scriptIdle /\ binaryIdle /\ scriptableIdle /\ rawIdle /\ frameIdle

TransformIndex ==
    /\ pc = "new"
    /\ value_once' = transform_index(value)
    /\ pc' = "once"
    /\ UNCHANGED <<overflow_checks, value, value_twice, tableVars, pointerVars, rgbaVars, cellVars, identifyVars, spriteVars, archiveVars, decryptVars, signatureVars, alphaVars, nibbleVars, scriptVars, binaryVars, scriptableVars, rawVars, frameVars>>

TransformIndexAgain ==
    /\ pc = "once"
    /\ value_twice' = transform_index(value_once.value)
    /\ pc' = "twice"
    /\ UNCHANGED <<overflow_checks, value, value_once, tableVars, pointerVars, rgbaVars, cellVars, identifyVars, spriteVars, archiveVars, decryptVars, signatureVars, alphaVars, nibbleVars, scriptVars, binaryVars, scriptableVars, rawVars, frameVars>>

NextIndex == TransformIndex \/ TransformIndexAgain

SpecIndex == InitIndex /\ [][NextIndex]_vars

(***************************************************************************)
(* SpecRgba: an RGBA palette array is reindexed twice, by                  *)
(* reindex_rgba_vector and by BinPalette::reindex.                         *)
(***************************************************************************)
MaxSeed == 12

ColorCounts == {8, 16, 32, 256}

\* colour i of the palette built from seed: R identifies the colour
RgbaPalette(color_count, seed) ==
    [ k \in 1..(4 * color_count) |->
        CASE (k - 1) % 4 = 0 -> ((k - 1) \div 4) % 256
          [] (k - 1) % 4 = 1 -> (((k - 1) \div 4) * 3 + seed) % 256
          [] (k - 1) % 4 = 2 -> seed
          [] OTHER -> 128 ]

InitRgba ==
    /\ pc = "new"
    /\ overflow_checks \in BOOLEAN
    /\ \E color_count \in ColorCounts, seed \in 0..MaxSeed :
           vector = RgbaPalette(color_count, seed)
    /\ vector_once = NoVector
    /\ vector_twice = NoVector
    /\ palette = vector
    /\ palette_calls = 0
    /\ tableIdle /\ pointerIdle /\ indexIdle /\ cellIdle /\ identifyIdle /\ spriteIdle /\ archiveIdle /\ decryptIdle /\ signatureIdle /\ alphaIdle /\ nibbleIdle /\ scriptIdle /\ binaryIdle /\ scriptableIdle /\ rawIdle /\ frameIdle

ReindexRgbaVector ==
    /\ pc = "new"
    /\ vector_once' = reindex_rgba_vector(vector)
    /\ pc' = IF vector_once'.panic THEN "panic" ELSE "once"
    /\ UNCHANGED <<overflow_checks, vector, vector_twice, palette, palette_calls, tableVars, pointerVars, indexVars, cellVars, identifyVars, spriteVars, archiveVars, decryptVars, signatureVars, alphaVars, nibbleVars, scriptVars, binaryVars, scriptableVars, rawVars, frameVars>>

ReindexRgbaVectorAgain ==
    /\ pc = "once"
    /\ vector_twice' = reindex_rgba_vector(vector_once.vector)
    /\ pc' = IF vector_twice'.panic THEN "panic" ELSE "twice"
    /\ UNCHANGED <<overflow_checks, vector, vector_once, palette, palette_calls, tableVars, pointerVars, indexVars, cellVars, identifyVars, spriteVars, archiveVars, decryptVars, signatureVars, alphaVars, nibbleVars, scriptVars, binaryVars, scriptableVars, rawVars, frameVars>>

BinPaletteReindex ==
    /\ pc \in {"new", "palette_once"}
    /\ LET r == BinPalette_reindex(palette)
       IN  /\ palette' = r.vector
           /\ pc' = IF r.panic THEN "palette_panic"
                     ELSE IF pc = "new" THEN "palette_once" ELSE "palette_twice"
    /\ palette_calls' = palette_calls + 1
    /\ UNCHANGED <<overflow_checks, vector, vector_once, vector_twice, tableVars, pointerVars, indexVars, cellVars, identifyVars, spriteVars, archiveVars, decryptVars, signatureVars, alphaVars, nibbleVars, scriptVars, binaryVars, scriptableVars, rawVars, frameVars>>

NextRgba == ReindexRgbaVector \/ ReindexRgbaVectorAgain \/ BinPaletteReindex

SpecRgba == InitRgba /\ [][NextRgba]_vars

(***************************************************************************)
(* C5: transform_index is an involution on 0..255 and never leaves the u8  *)
(* range: it swaps the 8-index groups g with g%4 = 1 and g%4 = 2 and fixes *)
(* the others (0 -> 0, 8 -> 16).                                           *)
(***************************************************************************)
GroupSwap(i) ==
    IF (i \div 8) % 4 = 1 THEN i + 8
    ELSE IF (i \div 8) % 4 = 2 THEN i - 8
    ELSE i

C5_TransformIndexInvolution ==
    /\ pc \in {"once", "twice"} =>
          /\ ~value_once.overflow
          /\ value_once.value = GroupSwap(value)
          /\ value = 0 => value_once.value = 0
          /\ value = 8 => value_once.value = 16
    /\ pc = "twice" => ~value_twice.overflow /\ value_twice.value = value

C5_Witness == pc = "twice" /\ value = 8 /\ value_once.value = 16 /\ value_twice.value = 8

(***************************************************************************)
(* C6: reindexing an RGBA palette array twice (reindex_rgba_vector or      *)
(* BinPalette::reindex) returns the original array, for 16-colour and      *)
(* 256-colour palettes alike, and one application reads only inside the    *)
(* array.                                                                  *)
(***************************************************************************)
C6_RgbaReindexInvolution ==
    /\ pc # "panic" /\ pc # "palette_panic"
    /\ pc = "twice" => vector_twice.vector = vector
    /\ pc = "palette_twice" => palette = vector

(***************************************************************************)
(* SpecCell: a Cell is written as binary and as JSON, and the JSON is read *)
(* back.                                                                   *)
(***************************************************************************)
MaxBoxes == 2

Box(x, y, w, h, t, cx, cy) ==
    [x_offset |-> x, y_offset |-> y, width |-> w, height |-> h,
     box_type |-> t, crop_x_offset |-> cx, crop_y_offset |-> cy]

BoxSamples ==
    { Box(0, 0, 0, 0, 0, 0, 0),
      Box(-3, 7, 16, 300, 3, 2, 5),
      Box(258, -32768, 65535, 1, 6, -1, 0),
      Box(1, 1, 1, 1, 513, 127, -128) }

Cells ==
    [boxes : SeqsUpTo(BoxSamples, MaxBoxes),
     sprite_x_offset : {0, -2},
     sprite_y_offset : {513},
     unknown_1 : {u32(0), [hi |-> 43981, lo |-> 4660]},
     sprite_index : {0, 258},
     unknown_2 : {0, 772}]

InitCell ==
    /\ pc = "new"
    /\ overflow_checks \in BOOLEAN
    /\ cell \in Cells
    /\ cell_bin = << >>
    /\ cell_json = NoCellJSON
    /\ cell_back = NoCell
    /\ tableIdle /\ pointerIdle /\ indexIdle /\ rgbaIdle /\ identifyIdle /\ spriteIdle /\ archiveIdle /\ decryptIdle /\ signatureIdle /\ alphaIdle /\ nibbleIdle /\ scriptIdle /\ binaryIdle /\ scriptableIdle /\ rawIdle /\ frameIdle

CellToBin ==
    /\ pc = "new"
    /\ cell_bin' = Cell_to_bin(cell)
    /\ pc' = "binned"
    /\ UNCHANGED <<overflow_checks, cell, cell_json, cell_back, tableVars, pointerVars, indexVars, rgbaVars, identifyVars, spriteVars, archiveVars, decryptVars, signatureVars, alphaVars, nibbleVars, scriptVars, binaryVars, scriptableVars, rawVars, frameVars>>

CellSerialize ==
    /\ pc = "new"
    /\ cell_json' = Cell_serialize(cell)
    /\ pc' = "serialized"
    /\ UNCHANGED <<overflow_checks, cell, cell_bin, cell_back, tableVars, pointerVars, indexVars, rgbaVars, identifyVars, spriteVars, archiveVars, decryptVars, signatureVars, alphaVars, nibbleVars, scriptVars, binaryVars, scriptableVars, rawVars, frameVars>>

CellFromJsonString ==
    /\ pc = "serialized"
    /\ cell_back' = Cell_from_json_string(cell_json)
    /\ pc' = "parsed"
    /\ UNCHANGED <<overflow_checks, cell, cell_bin, cell_json, tableVars, pointerVars, indexVars, rgbaVars, identifyVars, spriteVars, archiveVars, decryptVars, signatureVars, alphaVars, nibbleVars, scriptVars, binaryVars, scriptableVars, rawVars, frameVars>>

NextCell == CellToBin \/ CellSerialize \/ CellFromJsonString

SpecCell == InitCell /\ [][NextCell]_vars

(***************************************************************************)
(* C7: Cell::to_bin of a cell with n boxes is the little-endian u32 n, n   *)
(* 12-byte box records, the 12-byte sprite trailer (16 + 12n bytes), then  *)
(* 0xFF up to the next multiple of 16; nothing is added when 16 + 12n is   *)
(* already aligned (n = 2: 40 bytes before padding, 48 after).             *)
(***************************************************************************)
C7_CellToBinLayout ==
    pc = "binned" =>
        LET n == Len(cell.boxes)
            unpadded == 16 + 12 * n
        IN  /\ EntryAt(cell_bin, 0) = u32(n)
            /\ \A k \in 0..(n - 1) :
                   Slice(cell_bin, 4 + 12 * k, 16 + 12 * k) = hitbox_to_bin(cell.boxes[k + 1])
            /\ Slice(cell_bin, 4 + 12 * n, unpadded) = sprite_trailer_to_bin(cell)
            /\ Len(cell_bin) % 16 = 0
            /\ Len(cell_bin) >= unpadded /\ Len(cell_bin) < unpadded + 16
            /\ \A k \in unpadded..(Len(cell_bin) - 1) : At(cell_bin, k) = 255
            /\ n = 2 => unpadded = 40 /\ Len(cell_bin) = 48

C7_Witness ==
    /\ pc = "binned"
    /\ Len(cell.boxes) = 2
    /\ Len(cell_bin) = 48
    /\ Slice(cell_bin, 40, 48) = <<255, 255, 255, 255, 255, 255, 255, 255>>

(***************************************************************************)
(* C8: the JSON form of a Cell is lossless: from_json_string(serialize(c)) *)
(* equals c in every field of the cell and of every box, negative crop     *)
(* offsets and unknown_2 included.                                         *)
(***************************************************************************)
C8_JsonLossless == pc = "parsed" => cell_back = cell

(***************************************************************************)
(* SpecIdentify: identify_object on well-formed blobs of every type, on    *)
(* their one-byte mutations and truncations, in both builds                *)
(***************************************************************************)
MaxMutatePosition == 23
MaxTruncate == 8
MutateBytes == {0, 1, 255}

Zeros(n) == [ i \in 1..n |-> 0 ]
le4(n) == to_le_bytes_u32(u32(n))
Filler == <<255, 255, 255, 255>>

SpriteBlob == <<1, 0, 32, 0, 4, 0>> \o Zeros(26)
SpriteListBlob == finalize_pointers(<<u32(0)>>) \o SpriteBlob
SelectBlock == le4(2) \o le4(4) \o <<1, 1, 0, 0, 1, 0, 1, 0>>
SelectBlob == finalize_pointers(<<u32(0), u32(32)>>) \o SpriteBlob \o SelectBlock
\* a bitmask whose width * height does not fit a u32
SelectOverflowBlob ==
    finalize_pointers(<<u32(0), u32(32)>>) \o SpriteBlob
        \o <<0, 0, 1, 0>> \o <<0, 0, 1, 0>> \o Zeros(8)
JPFBlob ==
    finalize_pointers(<<u32(0), u32(16)>>) \o <<8, 42, 32, 0>> \o Zeros(12) \o SpriteBlob
WiiTPLBlob == <<0, 32, 175, 48>> \o Filler
CellsBlock == finalize_pointers(<<u32(0), u32(16)>>) \o Zeros(32)
SpritesBlock == finalize_pointers(<<u32(0)>>) \o SpriteBlob
ScriptableBlob ==
    finalize_pointers(<<u32(0), u32(48), u32(96)>>) \o CellsBlock \o SpritesBlock \o Zeros(16)
\* a header whose sprites pointer lies below its cells pointer
ScriptableUnderflowBlob ==
    le4(48) \o le4(16) \o Filler \o Filler
        \o le4(16) \o Filler \o Filler \o Filler
        \o <<1, 0, 32, 0, 4, 0>> \o Zeros(10) \o Filler \o Zeros(12)
MultiScriptableBlob == finalize_pointers(<<u32(0)>>) \o ScriptableBlob
UnsupportedBlob == finalize_pointers(<<u32(0)>>) \o Zeros(16)
WBNDBlob == <<68, 78, 66, 87>> \o Zeros(4)
VAGpBlob == <<0, 0, 0, 8>> \o Filler \o <<86, 65, 71, 112>>

\* sprite lists with a select bitmask of width w and height h: the block is
\* padded with 0xFF to a multiple of 16 bytes, as get_bin_sprite_list_select
\* pads it, or to the given length
MaxSelectSide == 5

SelectBlockOf(w, h, length) ==
    le4(w) \o le4(h) \o [ i \in 1..(length - 8) |-> IF i <= w * h THEN 1 ELSE 255 ]

RoundUp16(n) == n + ((16 - (n % 16)) % 16)

SelectBlobs ==
    { finalize_pointers(<<u32(0), u32(32)>>) \o SpriteBlob
          \o SelectBlockOf(w, h, RoundUp16(8 + w * h)) :
          w \in 0..MaxSelectSide, h \in 0..MaxSelectSide }
    \cup
    { finalize_pointers(<<u32(0), u32(32)>>) \o SpriteBlob
          \o SelectBlockOf(w, h, (8 + w * h) + ((8 + w * h) % 16)) :
          w \in 1..MaxSelectSide, h \in 1..2 }

BaseBlobs ==
    { SpriteBlob, SpriteListBlob, SelectBlob, SelectOverflowBlob, JPFBlob, WiiTPLBlob,
      ScriptableBlob, ScriptableUnderflowBlob, MultiScriptableBlob, UnsupportedBlob,
      WBNDBlob, VAGpBlob, Filler }

Mutate(blob, position, byte) ==
    IF position < Len(blob) THEN [blob EXCEPT ![position + 1] = byte] ELSE blob

Truncate(blob, n) == IF n < Len(blob) THEN SubSeq(blob, 1, n) ELSE blob

Candidates ==
    BaseBlobs
        \cup { Mutate(b, position, byte) :
                   b \in BaseBlobs, position \in 0..MaxMutatePosition, byte \in MutateBytes }
        \cup { Truncate(b, n) : b \in BaseBlobs, n \in 0..MaxTruncate }
        \cup SelectBlobs

InitIdentify ==
    /\ pc = "start"
    /\ candidate \in Candidates
    /\ overflow_checks \in BOOLEAN
    /\ object_type = "none"
    /\ tableIdle /\ pointerIdle /\ indexIdle /\ rgbaIdle /\ cellIdle /\ spriteIdle /\ archiveIdle /\ decryptIdle /\ signatureIdle /\ alphaIdle /\ nibbleIdle /\ scriptIdle /\ binaryIdle /\ scriptableIdle /\ rawIdle /\ frameIdle

IdentifyObject ==
    /\ pc = "start"
    /\ object_type' = identify_object(candidate, overflow_checks)
    /\ pc' = "identified"
    /\ UNCHANGED <<overflow_checks, candidate, tableVars, pointerVars, indexVars, rgbaVars, cellVars, spriteVars, archiveVars, decryptVars, signatureVars, alphaVars, nibbleVars, scriptVars, binaryVars, scriptableVars, rawVars, frameVars>>

NextIdentify == IdentifyObject

SpecIdentify == InitIdentify /\ [][NextIdentify]_vars

Predicate(name, bin_data, overflow_checks_) ==
    CASE name = "WBND" -> identify_audio_wbnd(bin_data)
      [] name = "VAGp" -> identify_audio_vagp(bin_data)
      [] name = "Sprite" -> identify_sprite(bin_data)
      [] name = "SpriteListSelect" -> identify_sprite_list_select(bin_data, overflow_checks_)
      [] name = "SpriteList" -> identify_sprite_list(bin_data)
      [] name = "JPFPlainText" -> identify_jpf_plain_text(bin_data)
      [] name = "WiiTPL" -> identify_wii_tpl(bin_data)
      [] name = "Scriptable" -> identify_scriptable(bin_data, overflow_checks_)
      [] name = "MultiScriptable" -> identify_multi_scriptable(bin_data)

TypeOf(name) == IF name \in {"WBND", "VAGp"} THEN "Unsupported" ELSE name

\* the outcome of the first predicate of order that does not return false
RECURSIVE FirstDeciding(_, _, _, _)
FirstDeciding(order, i, bin_data, overflow_checks_) ==
    IF i > Len(order) THEN "Unsupported"
    ELSE LET r == Predicate(order[i], bin_data, overflow_checks_)
         IN  IF r = "true" THEN TypeOf(order[i])
             ELSE IF r = "panic" THEN "panic"
             ELSE FirstDeciding(order, i + 1, bin_data, overflow_checks_)

CodeOrder ==
    <<"WBND", "VAGp", "Sprite", "SpriteListSelect", "SpriteList", "JPFPlainText", "WiiTPL",
      "Scriptable", "MultiScriptable">>

ClaimedOrder ==
    <<"WBND", "VAGp", "Sprite", "SpriteListSelect", "SpriteList", "JPFPlainText",
      "Scriptable", "MultiScriptable">>

\* C9 (as amended): identify_object is decided by the first predicate that does
\* not return false in the order WBND, VAGp, Sprite, SpriteListSelect, SpriteList,
\* JPFPlainText, WiiTPL, Scriptable, MultiScriptable: the type of that predicate
\* when it holds, an abort when it aborts, and Unsupported when all return false.
C9_FirstPredicateDecides ==
    pc = "identified" =>
        object_type = FirstDeciding(CodeOrder, 1, candidate, overflow_checks)

\* a SpriteListSelect result on a blob for which the later SpriteList predicate holds too
C9_Witness ==
    /\ pc = "identified"
    /\ object_type = "SpriteListSelect"
    /\ identify_sprite_list(candidate) = "true"

\* C9 (as stated): every returned type is that of the first predicate that holds
\* in the order WBND, VAGp, Sprite, SpriteListSelect, SpriteList, JPFPlainText,
\* Scriptable, MultiScriptable, and no predicate outside this list decides.
C9_ClaimedOrderDecides ==
    (pc = "identified" /\ object_type # "panic") =>
        object_type = FirstDeciding(ClaimedOrder, 1, candidate, overflow_checks)

\* C10: identify_object returns an ObjectType for every blob instead of aborting.
C10_NeverFatal == pc = "identified" => object_type # "panic"

(***************************************************************************)
(* SpecSprite: BinSprite::to_bin on valid sprites, and decompress on the   *)
(* records it writes and on records built from arbitrary token lists       *)
(***************************************************************************)
MaxPixelCount == 4
MaxTokens == 2
MaxPatternLength == 14
LongSide == 23

PixelSamples(bit_depth) == IF bit_depth = 4 THEN {0, 1, 15} ELSE {0, 1, 255}

Shapes(n) == { wh \in (0..n) \X (0..n) : wh[1] * wh[2] = n }

\* an embedded palette of 2^bit_depth RGBA colours
SamplePalette(bit_depth) == [ i \in 1..(4 * (2 ^ bit_depth)) |-> (7 * i) % 256 ]

EnumeratedSprites ==
    { [width |-> wh[1], height |-> wh[2], bit_depth |-> bit_depth, pixels |-> pixels,
       palette |-> palette_] :
          wh \in { <<0, 0>>, <<0, 1>>, <<1, 0>> }
                    \cup UNION { Shapes(n) : n \in 1..MaxPixelCount },
          bit_depth \in {4, 8},
          pixels \in SeqsUpTo({0, 1, 15, 255}, MaxPixelCount),
          palette_ \in { << >> } }

ValidEnumerated ==
    { s \in EnumeratedSprites :
          /\ Len(s.pixels) = s.width * s.height
          /\ \A i \in 1..Len(s.pixels) : s.pixels[i] \in PixelSamples(s.bit_depth) }

\* repeating pixel runs, long enough for back-references at either bit depth
PatternSprites ==
    { [width |-> n, height |-> 1, bit_depth |-> bit_depth,
       pixels |-> [ i \in 1..n |-> 1 + (i % period) ],
       palette |-> IF with_palette THEN SamplePalette(bit_depth) ELSE << >>] :
          n \in 5..MaxPatternLength, bit_depth \in {4, 8}, period \in 1..3,
          with_palette \in BOOLEAN }

\* sprites whose packed bytes outgrow the 512-byte window
LongSprites ==
    { [width |-> LongSide, height |-> (IF bit_depth = 4 THEN 2 ELSE 1) * LongSide,
       bit_depth |-> bit_depth,
       pixels |-> [ i \in 1..((IF bit_depth = 4 THEN 2 ELSE 1) * LongSide * LongSide) |->
                      1 + (((i - 1) \div run) % 3) ],
       palette |-> << >>] :
          bit_depth \in {4, 8}, run \in {1, 2} }

ValidSprites == ValidEnumerated \cup PatternSprites \cup LongSprites

\* token lists as bits: literals of one and of two bytes, back-references
TokenSamples ==
    { <<1>> \o to_bits(3, 8),
      <<1>> \o to_bits(18, 8) \o to_bits(52, 8),
      <<0>> \o to_bits(0, 9) \o to_bits(0, 7),
      <<0>> \o to_bits(1, 9) \o to_bits(2, 7),
      <<0>> \o to_bits(511, 9) \o to_bits(0, 7) }

RecordShapes == { <<0, 0>>, <<1, 1>>, <<2, 2>>, <<3, 3>> }

Records ==
    { make_header(TRUE, 0, bit_depth, wh[1], wh[2], 0, 0, 0)
          \o << 0, 0, count, 0 >> \o swap_pairs(bits_to_bytes(Concat(tokens))) :
          bit_depth \in {4, 8, 2}, wh \in RecordShapes,
          count \in 0..(MaxTokens + 1), tokens \in SeqsUpTo(TokenSamples, MaxTokens) }

\* records cut short or with a stray byte: a header alone, three of the four
\* iteration bytes, a palette announced and missing, an odd number of stream
\* bytes
TruncatedRecords ==
    { make_header(TRUE, 0, 8, 1, 1, 0, 0, 0),
      make_header(TRUE, 0, 8, 1, 1, 0, 0, 0) \o <<0, 0, 1>>,
      make_header(TRUE, 32, 4, 1, 1, 0, 0, 0) \o <<0, 0, 1, 0>>,
      make_header(TRUE, 0, 8, 1, 1, 0, 0, 0) \o <<0, 0, 1, 0>> \o <<128, 129, 0>> }

\* records whose buffer outgrows the 512-byte window: a literal pair, four
\* back-references of 130 bytes, then a back-reference to the last byte or to
\* the first byte of the window
WindowRecords ==
    { make_header(TRUE, 0, 8, LongSide, LongSide, 0, 0, 0)
          \o << 0, 0, 6, 0 >>
          \o swap_pairs(bits_to_bytes(
                 <<1>> \o to_bits(18, 8) \o to_bits(52, 8)
                 \o Concat([ i \in 1..4 |-> <<0>> \o to_bits(0, 9) \o to_bits(127, 7) ])
                 \o <<0>> \o to_bits(offset, 9) \o to_bits(2, 7))) :
          offset \in {0, 511} }

InitSprite ==
    /\ overflow_checks \in BOOLEAN
    /\ flip \in BOOLEAN
    /\ \/ /\ pc = "sprite"
          /\ bin_sprite \in ValidSprites
          /\ sprite_bin = << >>
       \/ /\ pc = "record"
          /\ bin_sprite = NoSprite
          /\ sprite_bin \in Records \cup TruncatedRecords \cup WindowRecords
    /\ bin_header = NoHeader /\ embedded_palette = << >> /\ byte_data = << >>
    /\ bit_position = 0 /\ iterations = 0 /\ iteration = 0
    /\ pixel_vector = << >> /\ sprite_data = NoSpriteData
    /\ tableIdle /\ pointerIdle /\ indexIdle /\ rgbaIdle /\ cellIdle /\ identifyIdle /\ archiveIdle /\ decryptIdle /\ signatureIdle /\ alphaIdle /\ nibbleIdle /\ scriptIdle /\ binaryIdle /\ scriptableIdle /\ rawIdle /\ frameIdle

otherVars == <<overflow_checks, tableVars, pointerVars, indexVars, rgbaVars, cellVars, identifyVars, archiveVars, decryptVars, signatureVars, alphaVars, nibbleVars, scriptVars, binaryVars, scriptableVars, rawVars, frameVars>>

BinSpriteToBin ==
    /\ pc = "sprite"
    /\ sprite_bin' = to_bin(bin_sprite, flip)
    /\ pc' = "record"
    /\ UNCHANGED <<bin_sprite, flip, bin_header, embedded_palette, byte_data, bit_position,
                   iterations, iteration, pixel_vector, sprite_data, otherVars>>

\* get_header and decompress up to its loop
DecompressBegin ==
    /\ pc = "record"
    /\ IF Len(sprite_bin) < HEADER_SIZE
       THEN /\ pc' = "panic"
            /\ UNCHANGED <<bin_header, embedded_palette, iterations, byte_data>>
       ELSE LET header == get_header(sprite_bin)
                begin == decompress_begin(sprite_bin, header, overflow_checks)
            IN  /\ bin_header' = header
                /\ embedded_palette' = begin.palette
                /\ iterations' = begin.iterations
                /\ byte_data' = begin.byte_data
                /\ pc' = IF begin.panic THEN "panic" ELSE "decoding"
    /\ UNCHANGED <<bin_sprite, sprite_bin, flip, bit_position, iteration, pixel_vector,
                   sprite_data, otherVars>>

ReadBitFails ==
    /\ pc = "decoding"
    /\ iteration < iterations
    /\ ~can_read(byte_data, bit_position, 1)
    /\ pc' = "panic"
    /\ UNCHANGED <<spriteVars, otherVars>>

LiteralMode ==
    /\ pc = "decoding"
    /\ iteration < iterations
    /\ can_read(byte_data, bit_position, 1)
    /\ bit_at(byte_data, bit_position) = 1
    /\ LET step == literal_mode(byte_data, bit_position + 1, pixel_vector,
                                bin_header.width * bin_header.height)
       IN  /\ pixel_vector' = step.pixel_vector
           /\ bit_position' = step.position
           /\ pc' = IF step.panic THEN "panic" ELSE "decoding"
    /\ iteration' = iteration + 1
    /\ UNCHANGED <<bin_sprite, sprite_bin, flip, bin_header, embedded_palette, byte_data,
                   iterations, sprite_data, otherVars>>

TokenMode ==
    /\ pc = "decoding"
    /\ iteration < iterations
    /\ can_read(byte_data, bit_position, 1)
    /\ bit_at(byte_data, bit_position) = 0
    /\ LET step == token_mode(byte_data, bit_position + 1, pixel_vector)
       IN  /\ pixel_vector' = step.pixel_vector
           /\ bit_position' = step.position
           /\ pc' = IF step.panic THEN "panic" ELSE "decoding"
    /\ iteration' = iteration + 1
    /\ UNCHANGED <<bin_sprite, sprite_bin, flip, bin_header, embedded_palette, byte_data,
                   iterations, sprite_data, otherVars>>

DecompressFinish ==
    /\ pc = "decoding"
    /\ iteration = iterations
    /\ sprite_data' = decompress_finish(pixel_vector, bin_header, embedded_palette, flip)
    /\ pc' = IF sprite_data'.panic THEN "panic" ELSE "done"
    /\ UNCHANGED <<bin_sprite, sprite_bin, flip, bin_header, embedded_palette, byte_data,
                   bit_position, iterations, iteration, pixel_vector, otherVars>>

NextSprite ==
    \/ BinSpriteToBin \/ DecompressBegin \/ ReadBitFails \/ LiteralMode \/ TokenMode
    \/ DecompressFinish

SpecSprite == InitSprite /\ [][NextSprite]_vars

NaturalLength ==
    IF bin_header.bit_depth = 4 THEN 2 * Len(pixel_vector) ELSE Len(pixel_vector)

\* C4: when decompress completes, the pixel buffer it returns has exactly
\* width * height entries.
C4_OutputLength ==
    pc = "done" => Len(sprite_data.pixels) = bin_header.width * bin_header.height

\* a 4 bpp record whose tokens produced more pixels than width * height
C4_Witness ==
    /\ pc = "done"
    /\ bin_sprite = NoSprite
    /\ bin_header.bit_depth = 4
    /\ bin_header.width * bin_header.height > 0
    /\ NaturalLength > bin_header.width * bin_header.height
    /\ Len(sprite_data.pixels) = bin_header.width * bin_header.height


(***************************************************************************)
(* Resource archives: load_resource_file and save_resource_file            *)
(* (bin_resource.rs).  Objects with a typed loader are recorded by type    *)
(* only; their parsed contents are not followed here.                      *)
(***************************************************************************)
type_name(object_type_) ==
    CASE object_type_ = "Sprite" -> "sprite"
      [] object_type_ = "SpriteListSelect" -> "sprite_list_select"
      [] object_type_ = "SpriteList" -> "sprite_list"
      [] object_type_ = "JPFPlainText" -> "jpf_plain_text"
      [] object_type_ = "Scriptable" -> "scriptable"
      [] object_type_ = "MultiScriptable" -> "multi_scriptable"
      [] OTHER -> "unsupported"

\* one pass of the loop over the objects: the `_` arm keeps the object's bytes
load_object(object_bin_data, overflow_checks_) ==
    LET this_type == type_name(identify_object(object_bin_data, overflow_checks_))
    IN  [type |-> this_type,
         data |-> IF this_type = "unsupported" THEN object_bin_data ELSE << >>]

load_resource_file(bin_data, overflow_checks_) ==
    LET loaded == get_objects(bin_data)
    IN  IF loaded.panic
          \/ \E object \in 1..Len(loaded.objects) :
                 identify_object(loaded.objects[object], overflow_checks_) = "panic"
        THEN [panic |-> TRUE, entries |-> << >>]
        ELSE [panic |-> FALSE,
              entries |-> [object \in 1..Len(loaded.objects) |->
                              load_object(loaded.objects[object], overflow_checks_)]]

\* save_resource_file for a dictionary whose entries all take the `_` arm
save_resource_dictionary(entries) ==
    save_resource_file([object \in 1..Len(entries) |-> entries[object].data])

MaxArchiveObjects == 2

ArchiveObjects ==
    {UnsupportedBlob, WBNDBlob, VAGpBlob, WiiTPLBlob, <<0, 0, 0, 0>>,
     <<1, 2, 3, 4, 5>>, SpriteListBlob, Filler, << >>, <<1>>}

\* archives as the tool writes them, and two laid out differently: a pointer
\* table that is not padded to 16 bytes, and a pointer past the end
Archives ==
    { save_resource_file(objs) : objs \in SeqsUpTo(ArchiveObjects, MaxArchiveObjects) }
        \cup { le4(8) \o Filler \o WBNDBlob,
               le4(12) \o le4(20) \o Filler \o WBNDBlob \o <<1, 2, 3, 4, 5>>,
               le4(64) \o Filler \o WBNDBlob }

InitPassthrough ==
    /\ pc = "archive"
    /\ overflow_checks \in BOOLEAN
    /\ archive \in Archives
    /\ resource_dictionary = NoDictionary
    /\ tableIdle /\ pointerIdle /\ indexIdle /\ rgbaIdle /\ cellIdle /\ identifyIdle
    /\ spriteIdle /\ decryptIdle /\ signatureIdle /\ alphaIdle /\ nibbleIdle /\ scriptIdle /\ binaryIdle /\ scriptableIdle /\ rawIdle /\ frameIdle

LoadResourceFile ==
    /\ pc = "archive"
    /\ resource_dictionary' = load_resource_file(archive, overflow_checks)
    /\ pc' = IF resource_dictionary'.panic THEN "panic" ELSE "dictionary"
    /\ UNCHANGED <<overflow_checks, archive, tableVars, pointerVars, indexVars, rgbaVars,
                   cellVars, identifyVars, spriteVars, decryptVars, signatureVars, alphaVars, nibbleVars, scriptVars, binaryVars, scriptableVars, rawVars, frameVars>>

SaveResourceDictionary ==
    /\ pc = "dictionary"
    /\ \A object \in 1..Len(resource_dictionary.entries) :
           resource_dictionary.entries[object].type = "unsupported"
    /\ file_vector' = save_resource_dictionary(resource_dictionary.entries)
    /\ pc' = "saved"
    /\ UNCHANGED <<overflow_checks, objects, parsed, pointerVars, indexVars, rgbaVars,
                   cellVars, identifyVars, spriteVars, archiveVars, decryptVars, signatureVars, alphaVars, nibbleVars, scriptVars, binaryVars, scriptableVars, rawVars, frameVars>>

NextPassthrough == LoadResourceFile \/ SaveResourceDictionary \/ GetObjects

SpecPassthrough == InitPassthrough /\ [][NextPassthrough]_vars

ArchiveObjectsOf == get_objects(archive)

AllUnsupported ==
    /\ ~ArchiveObjectsOf.panic
    /\ \A object \in 1..Len(ArchiveObjectsOf.objects) :
           identify_object(ArchiveObjectsOf.objects[object], overflow_checks) = "Unsupported"

Suffix(s, n) == SubSeq(s, Len(s) - n + 1, Len(s))

\* C11: sub-objects classified Unsupported are loaded as passthrough entries
\* holding their exact bytes, saving writes those bytes unchanged after the
\* pointer table, and re-parsing the saved archive yields the same sub-objects.
C11_PassthroughLossless ==
    AllUnsupported =>
        LET objs == ArchiveObjectsOf.objects
            bytes == Concat(objs)
        IN  /\ pc # "panic"
            /\ pc \in {"dictionary", "saved", "loaded"} =>
                   resource_dictionary.entries =
                       [object \in 1..Len(objs) |->
                           [type |-> "unsupported", data |-> objs[object]]]
            /\ pc \in {"saved", "loaded"} =>
                   /\ Len(file_vector) >= Len(bytes)
                   /\ Suffix(file_vector, Len(bytes)) = bytes
                   /\ (Len(file_vector) - Len(bytes)) % 16 = 0
            /\ pc = "loaded" => parsed = [panic |-> FALSE, objects |-> objs]

\* two different Unsupported objects went through load, save and re-parse, and
\* the saved archive is laid out differently from the one that was loaded
C11_Witness ==
    /\ pc = "loaded"
    /\ archive # << >>
    /\ AllUnsupported
    /\ Len(ArchiveObjectsOf.objects) = 2
    /\ ArchiveObjectsOf.objects[1] # ArchiveObjectsOf.objects[2]
    /\ file_vector # archive
    /\ parsed.objects = ArchiveObjectsOf.objects


(***************************************************************************)
(* The Mersenne Twister of bin_decrypt.rs.  Words are u32 records of two   *)
(* 16-bit halves; the multiplication and addition of initialize panic on   *)
(* overflow when the build checks overflow and wrap otherwise.             *)
(***************************************************************************)
MERSENNE_LENGTH == 624
MERSENNE_INIT == [hi |-> 27655, lo |-> 35173]
MERSENNE_TWIST1 == [hi |-> 32768, lo |-> 0]
MERSENNE_TWIST2 == [hi |-> 32767, lo |-> 65535]
MERSENNE_TWIST3 == [hi |-> 39176, lo |-> 45279]
MERSENNE_PRNG1 == [hi |-> 40236, lo |-> 22144]
MERSENNE_PRNG2 == [hi |-> 61382, lo |-> 0]
LAST_OUT == [hi |-> 17217, lo |-> 20550]

RECURSIVE BitAnd(_, _)
BitAnd(a, b) ==
    IF a = 0 \/ b = 0 THEN 0
    ELSE (IF a % 2 = 1 /\ b % 2 = 1 THEN 1 ELSE 0) + 2 * BitAnd(a \div 2, b \div 2)

xor_u32(a, b) == [hi |-> BitXor(a.hi, b.hi), lo |-> BitXor(a.lo, b.lo)]

and_u32(a, b) == [hi |-> BitAnd(a.hi, b.hi), lo |-> BitAnd(a.lo, b.lo)]

\* w >> n for n in 1..31
shr_u32(w, n) ==
    IF n >= 16 THEN [hi |-> 0, lo |-> w.hi \div (2 ^ (n - 16))]
    ELSE [hi |-> w.hi \div (2 ^ n),
          lo |-> (w.lo \div (2 ^ n)) + (w.hi % (2 ^ n)) * (2 ^ (16 - n))]

\* w << n for n in 1..15: the bits shifted past bit 31 are lost
shl_u32(w, n) ==
    [hi |-> (w.hi % (2 ^ (16 - n))) * (2 ^ n) + (w.lo \div (2 ^ (16 - n))),
     lo |-> (w.lo % (2 ^ (16 - n))) * (2 ^ n)]

add_u32(a, b) ==
    LET low == a.lo + b.lo
        high == a.hi + b.hi + (low \div Half)
    IN  [overflow |-> high >= Half, value |-> [hi |-> high % Half, lo |-> low % Half]]

\* MERSENNE_INIT * (previous ^ (previous >> 30)) + i as u32
initialize_word(previous, i) ==
    LET product == mul_u32(MERSENNE_INIT, xor_u32(previous, shr_u32(previous, 30)))
        sum == add_u32(product.value, u32(i))
    IN  [overflow |-> product.overflow \/ sum.overflow, value |-> sum.value]

\* the words pushed for i in first..last, table[first - 1] being previous
RECURSIVE initialize_loop(_, _, _)
initialize_loop(previous, first, last) ==
    IF first = last
    THEN LET word == initialize_word(previous, first)
         IN  [overflow |-> word.overflow, table |-> << word.value >>]
    ELSE LET middle == (first + last) \div 2
             left == initialize_loop(previous, first, middle)
             right == initialize_loop(left.table[Len(left.table)], middle + 1, last)
         IN  [overflow |-> left.overflow \/ right.overflow,
              table |-> left.table \o right.table]

initialize(self, seed_, overflow_checks_) ==
    LET pushed == initialize_loop(seed_, 1, MERSENNE_LENGTH - 1)
    IN  [panic |-> overflow_checks_ /\ pushed.overflow,
         index |-> MERSENNE_LENGTH,
         table |-> self.table \o << seed_ >> \o pushed.table]

\* one pass of the loop of twist, on the table as the passes before left it
twist_step(table, i) ==
    LET value_ == add_u32(and_u32(At(table, i), MERSENNE_TWIST1),
                          and_u32(At(table, (i + 1) % MERSENNE_LENGTH),
                                  MERSENNE_TWIST2)).value
        mixed == xor_u32(At(table, (i + 397) % MERSENNE_LENGTH), shr_u32(value_, 1))
    IN  [table EXCEPT ![i + 1] = IF value_.lo % 2 # 0
                                 THEN xor_u32(mixed, MERSENNE_TWIST3)
                                 ELSE mixed]

RECURSIVE twist_loop(_, _, _)
twist_loop(table, first, last) ==
    IF first = last THEN twist_step(table, first)
    ELSE LET middle == (first + last) \div 2
             left == twist_loop(table, first, middle)
         IN  IF Len(left) = Len(table) THEN twist_loop(left, middle + 1, last)
             ELSE left

twist(self) ==
    [index |-> 0, table |-> twist_loop(self.table, 0, MERSENNE_LENGTH - 1)]

\* get_next_number once the table holds an entry at index
temper_next(self) ==
    LET value0 == At(self.table, self.index)
        value1 == xor_u32(value0, shr_u32(value0, 11))
        value2 == xor_u32(value1, and_u32(shl_u32(value1, 7), MERSENNE_PRNG1))
        value3 == xor_u32(value2, and_u32(shl_u32(value2, 15), MERSENNE_PRNG2))
        value4 == xor_u32(value3, shr_u32(value3, 18))
    IN  [twister |-> [index |-> self.index + 1, table |-> self.table],
         value |-> value4]

get_next_number(self) ==
    IF self.index >= MERSENNE_LENGTH THEN temper_next(twist(self)) ELSE temper_next(self)

NoTwister == [index |-> 0, table |-> << >>]

MaxNumbers == 626

Seeds == {u32(5489), u32(0), u32(1), u32(4357)}

InitTwister ==
    /\ pc = "new"
    /\ overflow_checks \in BOOLEAN
    /\ name_seed \in Seeds
    /\ twister = NoTwister
    /\ numbers = << >>
    /\ file_path = << >> /\ encrypted_data = << >> /\ last_out = u32(0) /\ output = << >>
    /\ tableIdle /\ pointerIdle /\ indexIdle /\ rgbaIdle /\ cellIdle /\ identifyIdle
    /\ spriteIdle /\ archiveIdle /\ signatureIdle /\ alphaIdle /\ nibbleIdle /\ scriptIdle /\ binaryIdle /\ scriptableIdle /\ rawIdle /\ frameIdle

laterVars ==
    <<overflow_checks, tableVars, pointerVars, indexVars, rgbaVars, cellVars, identifyVars,
      spriteVars, archiveVars, signatureVars, alphaVars, nibbleVars, scriptVars, binaryVars, scriptableVars, rawVars, frameVars>>

\* a panic leaves the twister out of reach: it is kept as it was
Initialize ==
    /\ pc = "new"
    /\ \E seeded \in {initialize(twister, name_seed, overflow_checks)} :
           IF seeded.panic
           THEN pc' = "panic" /\ UNCHANGED twister
           ELSE /\ pc' = "seeded"
                /\ twister' = [index |-> seeded.index, table |-> seeded.table]
    /\ UNCHANGED <<file_path, encrypted_data, name_seed, numbers, last_out, output, laterVars>>

GetNextNumber ==
    /\ pc = "seeded"
    /\ Len(numbers) < MaxNumbers
    /\ \E next \in {get_next_number(twister)} :
           /\ twister' = next.twister
           /\ numbers' = Append(numbers, next.value)
    /\ UNCHANGED <<pc, file_path, encrypted_data, name_seed, last_out, output, laterVars>>

NextTwister == Initialize \/ GetNextNumber

SpecTwister == InitTwister /\ [][NextTwister]_vars


(***************************************************************************)
(* decrypt_file (bin_decrypt.rs).  A path is the sequence of its           *)
(* components, each a sequence of ASCII bytes; file names that are not     *)
(* valid UTF-8 or that change length when uppercased are not among the     *)
(* inputs.                                                                 *)
(***************************************************************************)
ParentDir == <<46, 46>>

\* stands for None: no component has this byte
NoName == << -1 >>

\* Path::file_name: None for an empty path and for one that ends in ".."
file_name(path) ==
    IF path = << >> \/ path[Len(path)] = ParentDir THEN NoName ELSE path[Len(path)]

to_uppercase(str) ==
    [char \in 1..Len(str) |-> IF str[char] \in 97..122 THEN str[char] - 32 ELSE str[char]]

\* seed *= 137; seed += name_bytes[char] as u32
RECURSIVE fold_seed(_, _, _, _)
fold_seed(name_bytes, char, seed_, overflow_checks_) ==
    IF char >= Len(name_bytes) THEN [panic |-> FALSE, seed |-> seed_]
    ELSE LET product == mul_u32(seed_, u32(137))
             sum == add_u32(product.value, u32(At(name_bytes, char)))
         IN  IF overflow_checks_ /\ (product.overflow \/ sum.overflow)
             THEN [panic |-> TRUE, seed |-> seed_]
             ELSE fold_seed(name_bytes, char + 1, sum.value, overflow_checks_)

\* the loop body when every word starts from value_in ^ number alone
decrypt_word_unchained(bin_data, cursor, last_out_, self) ==
    LET value_in == le_u32_at(bin_data, cursor)
        next == get_next_number(self)
        out == xor_u32(value_in, next.value)
    IN  [twister |-> next.twister, number |-> next.value, last_out |-> out,
         bytes |-> to_le_bytes_u32(out)]

\* one pass of the while loop of decrypt_file
decrypt_word(bin_data, cursor, last_out_, self) ==
    LET value_in == le_u32_at(bin_data, cursor)
        next == get_next_number(self)
        out == xor_u32(last_out_, xor_u32(value_in, next.value))
    IN  [twister |-> next.twister, number |-> next.value, last_out |-> out,
         bytes |-> to_le_bytes_u32(out)]

MaxPlainLength == 9

PlainSample(k, n) == [i \in 1..n |-> (i * (36 + k) + 11 * k) % 256]

Plaintexts ==
    { PlainSample(1, n) : n \in 0..MaxPlainLength } \cup { PlainSample(2, MaxPlainLength) }

FileNames ==
    {<<97>>, <<97, 46, 98, 105, 110>>, <<65, 46, 66, 73, 78>>,
     <<65, 46, 98, 105, 110>>, <<66, 46, 66, 73, 78>>}

Directories == {<<120>>, <<89>>}

Paths ==
    { << name >> : name \in FileNames }
        \cup { << dir, name >> : dir \in Directories, name \in FileNames }
        \cup { << >>, << <<120>>, ParentDir >> }

\* the seed of a file name in wrapping arithmetic
SeedOf(name) == fold_seed(to_uppercase(name), 0, u32(0), FALSE).seed

RECURSIVE NumbersFrom(_, _)
NumbersFrom(self, n) ==
    IF n = 0 THEN << >>
    ELSE LET next == get_next_number(self)
         IN  << next.value >> \o NumbersFrom(next.twister, n - 1)

\* the first n outputs for a seed in wrapping arithmetic
Outputs(seed_, n) ==
    LET seeded == initialize(NoTwister, seed_, FALSE)
    IN  NumbersFrom([index |-> seeded.index, table |-> seeded.table], n)

UpperNames == { to_uppercase(name) : name \in FileNames }

\* the outputs every input of the model can need, by uppercased file name
NameNumbers ==
    [name \in UpperNames |-> Outputs(SeedOf(name), (MaxPlainLength \div 4) + 1)]

WordAt(bytes, i) == le_u32_at(bytes, 4 * i)

\* the chaining encoder: cipher_i = p_i XOR p_(i-1) XOR r_i, p_(-1) = LAST_OUT;
\* bytes after the last whole word are kept as they are
EncodeWords(plain, r) ==
    Concat([i \in 1..(Len(plain) \div 4) |->
               to_le_bytes_u32(
                   xor_u32(xor_u32(WordAt(plain, i - 1),
                                   IF i = 1 THEN LAST_OUT ELSE WordAt(plain, i - 2)),
                           r[i]))])

Encode(name, plain) ==
    EncodeWords(plain, NameNumbers[to_uppercase(name)])
        \o SubSeq(plain, 4 * (Len(plain) \div 4) + 1, Len(plain))

InitDecrypt ==
    /\ pc = "start"
    /\ overflow_checks \in BOOLEAN
    /\ file_path \in Paths
    /\ \E plain \in Plaintexts :
           encrypted_data =
               IF file_name(file_path) = NoName THEN plain
               ELSE Encode(file_name(file_path), plain)
    /\ name_seed = u32(0)
    /\ twister = NoTwister
    /\ numbers = << >>
    /\ last_out = LAST_OUT
    /\ output = << >>
    /\ tableIdle /\ pointerIdle /\ indexIdle /\ rgbaIdle /\ cellIdle /\ identifyIdle
    /\ spriteIdle /\ archiveIdle /\ signatureIdle /\ alphaIdle /\ nibbleIdle /\ scriptIdle /\ binaryIdle /\ scriptableIdle /\ rawIdle /\ frameIdle

\* file name, uppercasing and the seed loop
FoldSeed ==
    /\ pc = "start"
    /\ IF file_name(file_path) = NoName
       THEN pc' = "returned" /\ UNCHANGED name_seed
       ELSE LET folded == fold_seed(to_uppercase(file_name(file_path)), 0, u32(0),
                                    overflow_checks)
            IN  /\ name_seed' = folded.seed
                /\ pc' = IF folded.panic THEN "panic" ELSE "folded"
    /\ UNCHANGED <<file_path, encrypted_data, twister, numbers, last_out, output, laterVars>>

SeedTwister ==
    /\ pc = "folded"
    /\ \E seeded \in {initialize(twister, name_seed, overflow_checks)} :
           IF seeded.panic
           THEN pc' = "panic" /\ UNCHANGED twister
           ELSE /\ pc' = "decrypting"
                /\ twister' = [index |-> seeded.index, table |-> seeded.table]
    /\ UNCHANGED <<file_path, encrypted_data, name_seed, numbers, last_out, output, laterVars>>

\* cursor is Len(output): both grow by four in every pass
DecryptWord ==
    /\ pc = "decrypting"
    /\ Len(output) + 4 <= Len(encrypted_data)
    /\ \E word \in {decrypt_word(encrypted_data, Len(output), last_out, twister)} :
           /\ twister' = word.twister
           /\ numbers' = Append(numbers, word.number)
           /\ last_out' = word.last_out
           /\ output' = output \o word.bytes
    /\ UNCHANGED <<pc, file_path, encrypted_data, name_seed, laterVars>>

DecryptReturn ==
    /\ pc = "decrypting"
    /\ Len(output) + 4 > Len(encrypted_data)
    /\ pc' = "returned"
    /\ UNCHANGED <<decryptVars, laterVars>>

NextDecrypt == FoldSeed \/ SeedTwister \/ DecryptWord \/ DecryptReturn

SpecDecrypt == InitDecrypt /\ [][NextDecrypt]_vars

Previous(bytes, i) == IF i = 0 THEN LAST_OUT ELSE WordAt(bytes, i - 1)

\* the value get_next_number gives for the table entry of rank i
NumberAt(self, i) == get_next_number([index |-> i, table |-> self.table]).value

\* C12: every output word of decrypt_file is the previous output word (or
\* 0x43415046 for the first) XOR the input word at the same position XOR the
\* PRNG output of the same rank, one PRNG output being drawn per word, in file
\* order.
C12_WordChaining ==
    pc \in {"decrypting", "returned"} /\ file_name(file_path) # NoName =>
        LET words == Len(output) \div 4
        IN  /\ Len(output) = 4 * words
            /\ Len(numbers) = words
            /\ words > 0 => twister.index = words
            /\ \A i \in 0..(words - 1) :
                   /\ numbers[i + 1] = NumberAt(twister, i)
                   /\ WordAt(output, i) =
                          xor_u32(Previous(output, i),
                                  xor_u32(WordAt(encrypted_data, i), numbers[i + 1]))

\* two whole words were decrypted and the second differs from what the
\* unchained rule would give
C12_Witness ==
    /\ pc = "returned"
    /\ Len(output) = 8
    /\ Len(numbers) = 2
    /\ WordAt(output, 1) # xor_u32(WordAt(encrypted_data, 1), numbers[2])


\* the words of data decrypted with the numbers r, by the chaining rule
RECURSIVE DecodeWords(_, _, _, _)
DecodeWords(data, r, i, previous) ==
    IF 4 * i + 4 > Len(data) THEN << >>
    ELSE LET word == xor_u32(previous, xor_u32(WordAt(data, i), r[i + 1]))
         IN  to_le_bytes_u32(word) \o DecodeWords(data, r, i + 1, word)

\* C13: the seed is the fold seed = (seed * 137 + byte) mod 2^32 over the bytes
\* of the uppercased file name alone, the fold wraps and never fails for any
\* name length, and so the output of decrypt_file depends on the path only
\* through the uppercased file name.
C13_SeedFold ==
    [][/\ (pc = "start" /\ file_name(file_path) # NoName) =>
              (pc' = "folded" /\ name_seed' = SeedOf(file_name(file_path)))
       /\ (pc' = "returned" /\ file_name(file_path) # NoName) =>
              output' = DecodeWords(encrypted_data,
                                    NameNumbers[to_uppercase(file_name(file_path))],
                                    0, LAST_OUT)]_vars


\* <<seed, rank, high half, low half>>: outputs of the reference implementation
\* of MT19937 (mt19937ar.c, init_genrand and genrand_int32); 5489 is its default
\* seed, whose first output is 3499211612 = 53393 * 65536 + 47964
ReferenceVectors ==
    {<<5489, 1, 53393, 47964>>, <<5489, 2, 8878, 40694>>, <<5489, 3, 59361, 64238>>,
     <<5489, 624, 61345, 19967>>, <<5489, 625, 63764, 56408>>, <<5489, 626, 9320, 22721>>,
     <<0, 1, 35967, 2732>>, <<0, 2, 38852, 43567>>, <<0, 3, 46870, 42613>>,
     <<0, 624, 57859, 7396>>, <<0, 625, 5211, 36666>>, <<0, 626, 16424, 53121>>,
     <<1, 1, 27329, 62501>>, <<1, 2, 65351, 33003>>, <<1, 3, 47207, 12172>>,
     <<1, 624, 30610, 59193>>, <<1, 625, 16850, 33080>>, <<1, 626, 14331, 39502>>,
     <<4357, 1, 65519, 4932>>, <<4357, 2, 10676, 30251>>, <<4357, 3, 18521, 41975>>,
     <<4357, 624, 57047, 42088>>, <<4357, 625, 15809, 17254>>, <<4357, 626, 10296, 16086>>}

\* C14: after initialize(seed) the values returned by get_next_number are the
\* standard MT19937 outputs for that seed, computed in wrapping arithmetic,
\* before and after the state is regenerated on the 625th call.
C14_StandardSequence ==
    /\ pc # "panic"
    /\ \A v \in ReferenceVectors :
           (name_seed = u32(v[1]) /\ v[2] <= Len(numbers)) =>
               numbers[v[2]] = [hi |-> v[3], lo |-> v[4]]


(***************************************************************************)
(* The encrypted-file signature: decrypt_folder (bin_decrypt.rs) for one   *)
(* directory entry that is a readable file, and load_binary_data           *)
(* (bin_resource.rs).                                                      *)
(***************************************************************************)
ENCRYPTED_SIGNATURE == [hi |-> 16723, lo |-> 18243]

\* the four trailing bytes read first to last
signature_forward(data) ==
    from_le_bytes_u32(At(data, Len(data) - 4), At(data, Len(data) - 3),
                      At(data, Len(data) - 2), At(data, Len(data) - 1))
        = ENCRYPTED_SIGNATURE

\* u32::from_le_bytes([data[len - 1], data[len - 2], data[len - 3], data[len - 4]])
\* == ENCRYPTED_SIGNATURE, for len >= 4
signature_check(data) ==
    from_le_bytes_u32(At(data, Len(data) - 1), At(data, Len(data) - 2),
                      At(data, Len(data) - 3), At(data, Len(data) - 4))
        = ENCRYPTED_SIGNATURE

RECURSIVE decrypt_loop(_, _, _, _)
decrypt_loop(bin_data, cursor, last_out_, self) ==
    IF cursor + 4 > Len(bin_data) THEN << >>
    ELSE LET word == decrypt_word(bin_data, cursor, last_out_, self)
         IN  word.bytes \o decrypt_loop(bin_data, cursor + 4, word.last_out, word.twister)

decrypt_file(path, bin_data, overflow_checks_) ==
    IF file_name(path) = NoName THEN [panic |-> FALSE, output |-> << >>]
    ELSE LET folded == fold_seed(to_uppercase(file_name(path)), 0, u32(0),
                                 overflow_checks_)
             seeded == initialize(NoTwister, folded.seed, overflow_checks_)
         IN  IF folded.panic \/ seeded.panic THEN [panic |-> TRUE, output |-> << >>]
             ELSE [panic |-> FALSE,
                   output |-> decrypt_loop(bin_data, 0, LAST_OUT,
                                  [index |-> seeded.index, table |-> seeded.table])]

\* the body of the read_dir loop for an entry that is a file and can be read;
\* indexing data shorter than four bytes panics
decrypt_folder_entry(path, data, overflow_checks_) ==
    IF Len(data) < 4 THEN [panic |-> TRUE, decrypted |-> FALSE, written |-> data]
    ELSE IF signature_check(data)
    THEN LET bin_data == decrypt_file(path, data, overflow_checks_)
         IN  IF bin_data.panic THEN [panic |-> TRUE, decrypted |-> TRUE, written |-> data]
             ELSE [panic |-> FALSE, decrypted |-> TRUE, written |-> bin_data.output]
    ELSE [panic |-> FALSE, decrypted |-> FALSE, written |-> data]

\* the loop that looks for an object that is not a sprite
RECURSIVE sprite_list_check(_, _, _)
sprite_list_check(objs, object, overflow_checks_) ==
    IF object >= Len(objs) THEN "sprite list"
    ELSE LET this_type == identify_object(At(objs, object), overflow_checks_)
         IN  IF this_type = "panic" THEN "panic"
             ELSE IF this_type = "Sprite"
                  THEN sprite_list_check(objs, object + 1, overflow_checks_)
                  ELSE "resource"

\* the error of the dictionary load_binary_data returns, or the loader it
\* hands the data to
load_binary_data(bin_data, overflow_checks_) ==
    IF Len(bin_data) < 48 THEN "Invalid file (too short)"
    ELSE IF signature_check(bin_data) THEN "Invalid file (encrypted)"
    ELSE LET loaded == get_objects(bin_data)
         IN  IF loaded.panic THEN "panic"
             ELSE IF Len(loaded.objects) = 0 THEN "Invalid file (no objects)"
             ELSE sprite_list_check(loaded.objects, 0, overflow_checks_)

MaxEntryPadding == 1

EntryPath == << <<120>>, <<65, 46, 66, 73, 78>> >>

EntryTails ==
    {<<65, 83, 71, 67>>, <<71, 67, 83, 65>>, <<67, 71, 83, 65>>, <<0, 0, 0, 0>>,
     <<83, 71, 67>>, <<67>>, << >>}

EntryBodies ==
    { Zeros(n) : n \in 0..MaxEntryPadding }
        \cup { Zeros(43 + n) : n \in 0..MaxEntryPadding }
        \cup { save_resource_file(<<WBNDBlob \o Zeros(24)>>), SpriteListBlob }

Entries == { body \o tail : body \in EntryBodies, tail \in EntryTails }

InitSignature ==
    /\ pc = "entry"
    /\ overflow_checks \in BOOLEAN
    /\ entry_data \in Entries
    /\ read_data = << >>
    /\ entry_decrypted = FALSE
    /\ load_error = "not called"
    /\ tableIdle /\ pointerIdle /\ indexIdle /\ rgbaIdle /\ cellIdle /\ identifyIdle
    /\ spriteIdle /\ archiveIdle /\ decryptIdle /\ alphaIdle /\ nibbleIdle /\ scriptIdle /\ binaryIdle /\ scriptableIdle /\ rawIdle /\ frameIdle

signatureOthers ==
    <<overflow_checks, tableVars, pointerVars, indexVars, rgbaVars, cellVars, identifyVars,
      spriteVars, archiveVars, decryptVars, alphaVars, nibbleVars, scriptVars, binaryVars, scriptableVars, rawVars, frameVars>>

DecryptFolderEntry ==
    /\ pc = "entry"
    /\ read_data' = entry_data
    /\ \E written \in {decrypt_folder_entry(EntryPath, entry_data, overflow_checks)} :
           /\ entry_decrypted' = written.decrypted
           /\ entry_data' = written.written
           /\ pc' = IF written.panic THEN "panic" ELSE "decrypted"
    /\ UNCHANGED <<load_error, signatureOthers>>

LoadBinaryData ==
    /\ pc \in {"entry", "decrypted"}
    /\ load_error' = load_binary_data(entry_data, overflow_checks)
    /\ pc' = "loaded"
    /\ UNCHANGED <<entry_data, read_data, entry_decrypted, signatureOthers>>

NextSignature == DecryptFolderEntry \/ LoadBinaryData

SpecSignature == InitSignature /\ [][NextSignature]_vars

EndsWith(data, tail) ==
    Len(data) >= Len(tail) /\ SubSeq(data, Len(data) - Len(tail) + 1, Len(data)) = tail

\* decrypt_folder took the entry it read for encrypted exactly when it ends
\* with tail and rewrote no other entry; load_binary_data answers with the
\* encrypted error exactly for data of at least minimum bytes that ends with tail
SignatureIs(tail, minimum) ==
    /\ pc \in {"decrypted", "panic"} =>
           /\ entry_decrypted <=> EndsWith(read_data, tail)
           /\ ~EndsWith(read_data, tail) => entry_data = read_data
    /\ pc = "loaded" =>
           (load_error = "Invalid file (encrypted)"
                <=> (Len(entry_data) >= minimum /\ EndsWith(entry_data, tail)))

\* C15 as stated: a file is encrypted exactly when its last four bytes, in file
\* order, are 47 43 53 41; decrypt_folder decrypts and rewrites only such files
\* and load_binary_data rejects exactly such files with the encrypted error.
C15_SignatureAsClaimed == SignatureIs(<<71, 67, 83, 65>>, 0)

\* C15, amended: the last four bytes, in file order, are 41 53 47 43;
\* decrypt_folder decrypts and rewrites only such files and leaves every other
\* file untouched, and load_binary_data rejects exactly such files of at least
\* 0x30 bytes with the encrypted error.
C15_Signature == SignatureIs(<<65, 83, 71, 67>>, 48)

\* an entry of 48 bytes or more ending in 41 53 47 43 was decrypted and
\* rewritten with other bytes
C15_Witness ==
    /\ pc = "decrypted"
    /\ entry_decrypted
    /\ Len(read_data) >= 48
    /\ EndsWith(read_data, <<65, 83, 71, 67>>)
    /\ load_binary_data(read_data, overflow_checks) = "Invalid file (encrypted)"
    /\ entry_data # read_data


\* C16: when the input of decrypt_file was produced from a plaintext by the
\* chaining encoder under the same file name, decrypt_file returns that
\* plaintext, of the same length as the input, whatever that length is.
C16_DecryptInvertsEncode ==
    (pc = "returned" /\ file_name(file_path) # NoName) =>
        \A plain \in Plaintexts :
            encrypted_data = Encode(file_name(file_path), plain) =>
                /\ output = plain
                /\ Len(output) = Len(encrypted_data)


(***************************************************************************)
(* decompress (decompressor.rs) as one function of the record and its      *)
(* header, from the steps SpecSprite takes one at a time.                  *)
(***************************************************************************)
PanicData == [NoSpriteData EXCEPT !.panic = TRUE]

\* the loop over the iterations
RECURSIVE decompress_loop(_, _, _, _, _, _)
decompress_loop(bytes, position, pixels_, iteration_, iterations_, pixel_count) ==
    IF iteration_ >= iterations_ THEN [panic |-> FALSE, pixel_vector |-> pixels_]
    ELSE IF ~can_read(bytes, position, 1) THEN [panic |-> TRUE, pixel_vector |-> pixels_]
    ELSE LET step == IF bit_at(bytes, position) = 1
                     THEN literal_mode(bytes, position + 1, pixels_, pixel_count)
                     ELSE token_mode(bytes, position + 1, pixels_)
         IN  IF step.panic THEN [panic |-> TRUE, pixel_vector |-> step.pixel_vector]
             ELSE decompress_loop(bytes, step.position, step.pixel_vector,
                                  iteration_ + 1, iterations_, pixel_count)

decompress(bin_data, header, overflow_checks_, flip_) ==
    LET begin == decompress_begin(bin_data, header, overflow_checks_)
    IN  IF begin.panic THEN PanicData
        ELSE LET decoded == decompress_loop(begin.byte_data, 0, << >>, 0,
                                            begin.iterations,
                                            header.width * header.height)
             IN  IF decoded.panic THEN PanicData
                 ELSE decompress_finish(decoded.pixel_vector, header, begin.palette, flip_)

\* the XOR of the little-endian 16-bit words stream[2k] | stream[2k+1] << 8
RECURSIVE XorFold(_, _)
XorFold(stream, k) ==
    IF 2 * k + 1 >= Len(stream) THEN 0
    ELSE BitXor(At(stream, 2 * k) + 256 * At(stream, 2 * k + 1), XorFold(stream, k + 1))

HashSamples == {0, 1, 65535}

\* C17: the hash field to_bin writes is the XOR of the 16-bit little-endian
\* words of the compressed stream, every stream byte being part of exactly one
\* word, and decompress returns the same whatever the hash field holds.
C17_HashFold ==
    (pc = "record" /\ bin_sprite # NoSprite) =>
        LET header == get_header(sprite_bin)
        IN  /\ header.hash = XorFold(compress(bin_sprite, flip).stream, 0)
            /\ \A hash \in HashSamples :
                   decompress(sprite_bin, [header EXCEPT !.hash = hash],
                              overflow_checks, flip)
                       = decompress(sprite_bin, header, overflow_checks, flip)


(***************************************************************************)
(* alpha_double (sprite_transform.rs).  palette[alpha] * 2 is a u8         *)
(* product: above 0x7F it panics when the build checks overflow and wraps  *)
(* otherwise.                                                              *)
(***************************************************************************)
alpha_double(input_palette, overflow_checks_) ==
    LET color_count == Len(input_palette) \div 4
        is_alpha(i) == i % 4 = 0 /\ i <= 4 * color_count
    IN  IF overflow_checks_
           /\ \E i \in 1..Len(input_palette) :
                  is_alpha(i) /\ input_palette[i] # 128 /\ input_palette[i] * 2 > 255
        THEN [panic |-> TRUE, palette |-> input_palette]
        ELSE [panic |-> FALSE,
              palette |-> [i \in 1..Len(input_palette) |->
                              IF ~is_alpha(i) THEN input_palette[i]
                              ELSE IF input_palette[i] = 128 THEN 255
                              ELSE (input_palette[i] * 2) % 256]]

MaxColors == 2

AlphaSamples == {0, 1, 127, 128, 129, 255}

Colors == { rgb \o << a >> : rgb \in {<<1, 2, 3>>, <<255, 0, 128>>}, a \in AlphaSamples }

Palettes ==
    { Concat(colors) \o rest : colors \in SeqsUpTo(Colors, MaxColors),
                               rest \in {<< >>, <<9>>, <<128, 129, 255>>} }

InitAlpha ==
    /\ pc = "palette"
    /\ overflow_checks \in BOOLEAN
    /\ palette_rgba \in Palettes
    /\ palette_doubled = [panic |-> FALSE, palette |-> << >>]
    /\ tableIdle /\ pointerIdle /\ indexIdle /\ rgbaIdle /\ cellIdle /\ identifyIdle
    /\ spriteIdle /\ archiveIdle /\ decryptIdle /\ signatureIdle /\ nibbleIdle /\ scriptIdle /\ binaryIdle /\ scriptableIdle /\ rawIdle /\ frameIdle

AlphaDouble ==
    /\ pc = "palette"
    /\ palette_doubled' = alpha_double(palette_rgba, overflow_checks)
    /\ pc' = IF palette_doubled'.panic THEN "panic" ELSE "doubled"
    /\ UNCHANGED <<overflow_checks, palette_rgba, tableVars, pointerVars, indexVars, rgbaVars,
                   cellVars, identifyVars, spriteVars, archiveVars, decryptVars,
                   signatureVars, nibbleVars, scriptVars, binaryVars, scriptableVars, rawVars, frameVars>>

NextAlpha == AlphaDouble

SpecAlpha == InitAlpha /\ [][NextAlpha]_vars

Min(a, b) == IF a < b THEN a ELSE b

\* C18: alpha_double never fails; it turns the alpha byte a of every colour
\* into 0xFF when a = 0x80 and into min(2 * a, 0xFF) otherwise, and leaves the
\* R, G and B bytes and the length of the array as they were.
C18_AlphaDouble ==
    /\ pc # "panic"
    /\ pc = "doubled" =>
           /\ Len(palette_doubled.palette) = Len(palette_rgba)
           /\ \A i \in 1..Len(palette_rgba) :
                  palette_doubled.palette[i] =
                      IF i % 4 # 0 THEN palette_rgba[i]
                      ELSE IF palette_rgba[i] = 128 THEN 255
                      ELSE Min(2 * palette_rgba[i], 255)


(***************************************************************************)
(* The 4 bpp conversions of sprite_transform.rs, one applied after the     *)
(* other in both orders.                                                   *)
(***************************************************************************)
MaxNibbleLength == 3

NibbleArrays == SeqsUpTo({0, 1, 15, 16, 31, 255}, MaxNibbleLength)

InitNibble ==
    /\ pc \in {"pixels", "bytes"}
    /\ overflow_checks \in BOOLEAN
    /\ nibble_flip \in BOOLEAN
    /\ nibble_input \in NibbleArrays
    /\ nibble_once = << >>
    /\ nibble_twice = << >>
    /\ tableIdle /\ pointerIdle /\ indexIdle /\ rgbaIdle /\ cellIdle /\ identifyIdle
    /\ spriteIdle /\ archiveIdle /\ decryptIdle /\ signatureIdle /\ alphaIdle /\ scriptIdle /\ binaryIdle /\ scriptableIdle /\ rawIdle /\ frameIdle

nibbleOthers ==
    <<overflow_checks, tableVars, pointerVars, indexVars, rgbaVars, cellVars, identifyVars,
      spriteVars, archiveVars, decryptVars, signatureVars, alphaVars, scriptVars, binaryVars, scriptableVars, rawVars, frameVars>>

BppTo4 ==
    \/ /\ pc = "pixels"
       /\ nibble_once' = bpp_to_4(nibble_input, nibble_flip)
       /\ pc' = "packed"
       /\ UNCHANGED <<nibble_flip, nibble_input, nibble_twice, nibbleOthers>>
    \/ /\ pc = "expanded"
       /\ nibble_twice' = bpp_to_4(nibble_once, nibble_flip)
       /\ pc' = "repacked"
       /\ UNCHANGED <<nibble_flip, nibble_input, nibble_once, nibbleOthers>>

BppFrom4 ==
    \/ /\ pc = "bytes"
       /\ nibble_once' = bpp_from_4(nibble_input, nibble_flip)
       /\ pc' = "expanded"
       /\ UNCHANGED <<nibble_flip, nibble_input, nibble_twice, nibbleOthers>>
    \/ /\ pc = "packed"
       /\ nibble_twice' = bpp_from_4(nibble_once, nibble_flip)
       /\ pc' = "unpacked"
       /\ UNCHANGED <<nibble_flip, nibble_input, nibble_once, nibbleOthers>>

NextNibble == BppTo4 \/ BppFrom4

SpecNibble == InitNibble /\ [][NextNibble]_vars

Clamped(p) == [i \in 1..Len(p) |-> IF p[i] > 15 THEN 15 ELSE p[i]]

\* C19: for either flip, expanding what bpp_to_4 packed gives the pixels back
\* with every value above 0xF replaced by 0xF, followed by exactly one 0 when
\* their number is odd; and packing what bpp_from_4 expanded gives the bytes
\* back.
C19_NibbleRoundTrip ==
    /\ pc = "unpacked" =>
           nibble_twice = Clamped(nibble_input)
                              \o (IF Len(nibble_input) % 2 = 1 THEN <<0>> ELSE << >>)
    /\ pc = "repacked" => nibble_twice = nibble_input

\* an odd number of pixels, one of them above 0xF, packed and expanded again
\* with the nibbles flipped
C19_Witness ==
    /\ pc = "unpacked"
    /\ nibble_flip
    /\ Len(nibble_input) = 3
    /\ \E i \in 1..3 : nibble_input[i] > 15
    /\ Len(nibble_twice) = 4
    /\ nibble_twice[4] = 0


\* C20: decompress, given a compressed sprite record that is truncated or
\* inconsistent (bit stream exhausted before all iterations are read, a
\* back-reference to a pixel not yet written, an odd number of stream bytes, a
\* record shorter than header, palette and iteration count), returns an error
\* to its caller and does not abort.
C20_DecodeFailuresReported ==
    ~(/\ pc = "panic"
      /\ bin_sprite = NoSprite
      /\ Len(sprite_bin) >= HEADER_SIZE
      /\ get_header(sprite_bin).compressed)

(***************************************************************************)
(* The decoder's loop, token by token                                      *)
(***************************************************************************)
\* the reader position and the buffer after the first count tokens of a run
\* that does not fail
RECURSIVE StateAfter(_, _, _, _, _)
StateAfter(bytes, position, pixels_, count, pixel_count) ==
    IF count = 0 THEN [position |-> position, pixel_vector |-> pixels_]
    ELSE LET step == IF bit_at(bytes, position) = 1
                     THEN literal_mode(bytes, position + 1, pixels_, pixel_count)
                     ELSE token_mode(bytes, position + 1, pixels_)
         IN  StateAfter(bytes, step.position, step.pixel_vector, count - 1, pixel_count)

\* the state the decoder was in before its latest token
BeforeLatest ==
    StateAfter(byte_data, 0, << >>, iteration - 1, bin_header.width * bin_header.height)

\* C21: a back-reference token with 9-bit offset o and 7-bit field l that is
\* decoded appends exactly l + 3 bytes to the buffer and leaves the earlier
\* bytes alone; the k-th appended byte equals the byte at index
\* window_origin + o + k of the buffer as it is once the earlier bytes of the
\* same copy are in it, with window_origin = max(0, L - 512) for the buffer
\* length L before the token; the byte read lies before the byte written and
\* at most 512 positions behind it.
C21_BackReference ==
    [][ ( /\ pc = "decoding" /\ pc' = "decoding"
          /\ iteration' = iteration + 1
          /\ bit_at(byte_data, bit_position) = 0 ) =>
        LET L == Len(pixel_vector)
            window_origin == IF L - 512 > 0 THEN L - 512 ELSE 0
            o == read_bits(byte_data, bit_position + 1, 9, 0)
            l == read_bits(byte_data, bit_position + 10, 7, 0)
        IN  /\ bit_position' = bit_position + 17
            /\ Len(pixel_vector') = L + l + 3
            /\ SubSeq(pixel_vector', 1, L) = pixel_vector
            /\ \A k \in 0..(l + 2) :
                  /\ At(pixel_vector', L + k) = At(pixel_vector', window_origin + o + k)
                  /\ window_origin + o + k < L + k
                  /\ (L + k) - (window_origin + o + k) <= 512 ]_vars

\* a back-reference has just been decoded on a buffer longer than the window,
\* and it read bytes that the same copy had written
C21_Witness ==
    /\ pc = "decoding" /\ iteration >= 1
    /\ LET before == BeforeLatest
           L == Len(before.pixel_vector)
           o == read_bits(byte_data, before.position + 1, 9, 0)
           l == read_bits(byte_data, before.position + 10, 7, 0)
       IN  /\ bit_at(byte_data, before.position) = 0
           /\ L > 512
           /\ (L - 512) + o + l + 2 >= L
           /\ Len(pixel_vector) = L + l + 3

\* the reader position and the buffer after the first count tokens of this run
AfterTokens(count) ==
    StateAfter(byte_data, 0, << >>, count, bin_header.width * bin_header.height)

\* whether the count-th token of this run is a literal, and the bytes it appended
IsLiteral(count) == bit_at(byte_data, AfterTokens(count - 1).position) = 1

Appended(count) ==
    Len(AfterTokens(count).pixel_vector) - Len(AfterTokens(count - 1).pixel_vector)

\* C22: in a decode run, at either bit depth, every literal token that is
\* followed by another literal token has appended two bytes to the buffer: only
\* the last literal token of the stream may append a single byte.
C22_LiteralPairs ==
    (pc = "decoding" /\ bin_header.bit_depth \in {4, 8}) =>
        \A i \in 1..iteration : \A j \in (i + 1)..iteration :
            (IsLiteral(i) /\ IsLiteral(j)) => Appended(i) = 2

(***************************************************************************)
(* The select bitmask of a sprite list                                     *)
(***************************************************************************)
\* the sub-blob after the last pointer of the candidate
SelectSubBlob ==
    LET header_pointers == get_pointers(candidate, 0, FALSE)
    IN  Slice(candidate, as_usize(At(header_pointers, Len(header_pointers) - 1)),
              Len(candidate))

\* the candidate reaches the select check of identify_object with a bitmask
\* that holds its two size words
ReachesSelectCheck ==
    /\ identify_audio_wbnd(candidate) = "false"
    /\ identify_audio_vagp(candidate) = "false"
    /\ identify_sprite(candidate) = "false"
    /\ identify_sprite_list(candidate) = "true"
    /\ Len(get_pointers(candidate, 0, FALSE)) <= 179
    /\ Len(SelectSubBlob) >= 8
    /\ ~mul_u32(le_u32_at(SelectSubBlob, 0), le_u32_at(SelectSubBlob, 4)).overflow

\* C23: a blob that passes the sprite-list check is identified as a sprite list
\* with select bitmask exactly when the sub-blob after its last pointer has
\* length 8 + w*h rounded up to the next multiple of 16, w and h being the
\* little-endian words at its bytes 0..3 and 4..7, whatever (8 + w*h) % 16 is.
C23_SelectLength ==
    (pc = "identified" /\ ReachesSelectCheck) =>
        LET product == mul_u32(le_u32_at(SelectSubBlob, 0), le_u32_at(SelectSubBlob, 4))
        IN  (object_type = "SpriteListSelect")
                <=> (Len(SelectSubBlob) = RoundUp16(8 + as_usize(product.value)))

(***************************************************************************)
(* Scripts: bin_script.rs.  A PlayVariables holds its 39 named i16 fields  *)
(* as the sequence values, a ChainTable its 32 named u32 fields as a       *)
(* sequence, both in the order from_bin reads and to_bin writes them.      *)
(* BinScript::from_bin is split at its three parts: the play data and the  *)
(* cursor placed at its end, the doubling special case, and the actions.   *)
(***************************************************************************)
PlayVariables_from_bin(bin_data) ==
    [header |-> from_le_bytes_u16(At(bin_data, 0), At(bin_data, 1)),
     values |-> [ k \in 1..39 |->
                    from_le_bytes_i16(At(bin_data, 2 * k), At(bin_data, 2 * k + 1)) ],
     padding |-> Slice(bin_data, 80, 128)]

PlayVariables_to_bin(self) ==
    to_le_bytes_u16(self.header)
        \o Concat([ k \in 1..39 |-> to_le_bytes_i16(self.values[k]) ])
        \o self.padding

ChainTable_from_bin_single(bin_data) ==
    [ k \in 1..32 |-> le_u32_at(bin_data, 4 * (k - 1)) ]

ChainTable_from_bin(bin_data) ==
    LET chain_table_count == IF At(bin_data, 1) = 5 THEN 5 ELSE 1
    IN  IF Len(bin_data) < 128 * (chain_table_count + 1)
        THEN [panic |-> TRUE, chain_tables |-> << >>]
        ELSE [panic |-> FALSE,
              chain_tables |-> [ i \in 1..chain_table_count |->
                  ChainTable_from_bin_single(Slice(bin_data, 128 * i, 128 * i + 128)) ]]

ChainTable_to_bin(self) == Concat([ k \in 1..32 |-> to_le_bytes_u32(self[k]) ])

NoPlayData == [panic |-> TRUE, variables |-> << >>, chain_tables |-> << >>]

PlayData_from_bin(bin_data) ==
    IF Len(bin_data) < 128 THEN NoPlayData
    ELSE LET chains == ChainTable_from_bin(bin_data)
         IN  IF chains.panic THEN NoPlayData
             ELSE [panic |-> FALSE, variables |-> PlayVariables_from_bin(bin_data),
                   chain_tables |-> chains.chain_tables]

PlayData_to_bin(self) ==
    PlayVariables_to_bin(self.variables)
        \o Concat([ i \in 1..Len(self.chain_tables) |-> ChainTable_to_bin(self.chain_tables[i]) ])

\* a cursor in which the first flag bit, tested last, overrides the others
play_data_cursor_reset(bin_data) ==
    IF At(bin_data, 1) < 129 /\ At(bin_data, 1) > 2
    THEN IF At(bin_data, 1) = 5 THEN 768
         ELSE IF BitAnd(At(bin_data, 80), 1) > 0 THEN 384
         ELSE 256 + (IF BitAnd(At(bin_data, 80), 2) > 0 THEN 128 ELSE 0)
                  + (IF BitAnd(At(bin_data, 80), 4) > 0 THEN 128 ELSE 0)
                  + (IF BitAnd(At(bin_data, 80), 8) > 0 THEN 128 ELSE 0)
    ELSE 128

\* "Place cursor at end of play data"
play_data_cursor(bin_data) ==
    IF At(bin_data, 1) < 129 /\ At(bin_data, 1) > 2
    THEN IF At(bin_data, 1) = 5 THEN 768
         ELSE (IF BitAnd(At(bin_data, 80), 1) > 0 THEN 384 ELSE 256)
                  + (IF BitAnd(At(bin_data, 80), 2) > 0 THEN 128 ELSE 0)
                  + (IF BitAnd(At(bin_data, 80), 4) > 0 THEN 128 ELSE 0)
                  + (IF BitAnd(At(bin_data, 80), 8) > 0 THEN 128 ELSE 0)
    ELSE 128

\* "Isuka hack": a second play data block of cursor bytes when the byte at the
\* cursor is 0xE5
isuka_hack(bin_data, cursor) ==
    IF cursor >= Len(bin_data) THEN [panic |-> TRUE, play_data |-> << >>, cursor |-> cursor]
    ELSE IF At(bin_data, cursor) # 229
    THEN [panic |-> FALSE, play_data |-> << >>, cursor |-> cursor]
    ELSE IF 2 * cursor > Len(bin_data)
    THEN [panic |-> TRUE, play_data |-> << >>, cursor |-> cursor]
    ELSE LET second == PlayData_from_bin(Slice(bin_data, cursor, 2 * cursor))
         IN  [panic |-> second.panic, play_data |-> << second >>, cursor |-> 2 * cursor]

\* the instruction database handed to from_bin: the arguments of each known id
InstructionDb ==
    [ id \in {0, 1, 2, 4, 255} |->
        CASE id = 1 -> << [size |-> 1, signed |-> TRUE] >>
          [] id = 2 -> << [size |-> 2, signed |-> FALSE], [size |-> 1, signed |-> FALSE] >>
          [] id = 4 -> << [size |-> 4, signed |-> TRUE], [size |-> 2, signed |-> TRUE] >>
          [] OTHER -> << >> ]

\* a four-byte value is kept as its two halves, the upper one signed for an i32
argument_value(bin_data, cursor, arg_size, arg_signed) ==
    IF arg_size = 1
    THEN IF arg_signed THEN u8_as_i8(At(bin_data, cursor)) ELSE At(bin_data, cursor)
    ELSE IF arg_size = 2
    THEN IF arg_signed
         THEN from_le_bytes_i16(At(bin_data, cursor), At(bin_data, cursor + 1))
         ELSE from_le_bytes_u16(At(bin_data, cursor), At(bin_data, cursor + 1))
    ELSE [hi |-> IF arg_signed
                 THEN from_le_bytes_i16(At(bin_data, cursor + 2), At(bin_data, cursor + 3))
                 ELSE from_le_bytes_u16(At(bin_data, cursor + 2), At(bin_data, cursor + 3)),
          lo |-> from_le_bytes_u16(At(bin_data, cursor), At(bin_data, cursor + 1))]

RECURSIVE parse_arguments(_, _, _, _)
parse_arguments(bin_data, cursor, entry_args, arguments) ==
    IF entry_args = << >> THEN [panic |-> FALSE, cursor |-> cursor, arguments |-> arguments]
    ELSE LET arg_size == Head(entry_args).size
             arg_signed == Head(entry_args).signed
             read == IF arg_size \in {1, 2} THEN arg_size ELSE 4
         IN  IF cursor + read > Len(bin_data)
             THEN [panic |-> TRUE, cursor |-> cursor, arguments |-> arguments]
             ELSE parse_arguments(bin_data, cursor + arg_size, Tail(entry_args),
                      Append(arguments,
                             [size |-> arg_size, signed |-> arg_signed,
                              value |-> argument_value(bin_data, cursor, arg_size,
                                                       arg_signed)]))

RECURSIVE parse_instructions(_, _, _, _)
parse_instructions(bin_data, cursor, instruction_db, instructions) ==
    IF cursor >= Len(bin_data)
    THEN [panic |-> FALSE, cursor |-> cursor, instructions |-> instructions]
    ELSE LET id == At(bin_data, cursor)
         IN  IF id \notin DOMAIN instruction_db
             THEN [panic |-> TRUE, cursor |-> cursor, instructions |-> instructions]
             ELSE LET parsed_ == parse_arguments(bin_data, cursor + 1, instruction_db[id],
                                                 << >>)
                      all == Append(instructions,
                                    [id |-> id, arguments |-> parsed_.arguments])
                  IN  IF parsed_.panic \/ id = 255
                      THEN [panic |-> parsed_.panic, cursor |-> parsed_.cursor,
                            instructions |-> all]
                      ELSE parse_instructions(bin_data, parsed_.cursor, instruction_db, all)

RECURSIVE parse_actions(_, _, _, _)
parse_actions(bin_data, cursor, instruction_db, actions) ==
    IF cursor >= Len(bin_data) THEN [panic |-> FALSE, actions |-> actions]
    ELSE IF cursor + 2 > Len(bin_data) THEN [panic |-> TRUE, actions |-> actions]
    ELSE IF Slice(bin_data, cursor, cursor + 2) = <<253, 0>>
    THEN [panic |-> FALSE, actions |-> actions]
    ELSE IF cursor + 8 > Len(bin_data) THEN [panic |-> TRUE, actions |-> actions]
    ELSE LET body == parse_instructions(bin_data, cursor + 8, instruction_db, << >>)
             action == [flags |-> le_u32_at(bin_data, cursor),
                        lvflag |-> from_le_bytes_u16(At(bin_data, cursor + 4),
                                                     At(bin_data, cursor + 5)),
                        damage |-> At(bin_data, cursor + 6),
                        flag2 |-> At(bin_data, cursor + 7),
                        instructions |-> body.instructions]
         IN  IF body.panic THEN [panic |-> TRUE, actions |-> actions]
             ELSE parse_actions(bin_data, body.cursor, instruction_db,
                                Append(actions, action))

InstructionArgument_to_bin(self) ==
    IF self.size = 1 THEN << self.value % 256 >>
    ELSE IF self.size = 2 THEN to_le_bytes_u16(self.value % Half)
    ELSE to_le_bytes_u16(self.value.lo) \o to_le_bytes_u16(self.value.hi % Half)

Instruction_to_bin(self) ==
    << self.id >>
        \o Concat([ i \in 1..Len(self.arguments) |->
                      InstructionArgument_to_bin(self.arguments[i]) ])

ScriptAction_to_bin(self) ==
    to_le_bytes_u32(self.flags) \o to_le_bytes_u16(self.lvflag)
        \o << self.damage, self.flag2 >>
        \o Concat([ i \in 1..Len(self.instructions) |->
                      Instruction_to_bin(self.instructions[i]) ])

BinScript_to_bin(play_data, actions) ==
    LET bin_data == Concat([ i \in 1..Len(play_data) |-> PlayData_to_bin(play_data[i]) ])
                        \o Concat([ i \in 1..Len(actions) |-> ScriptAction_to_bin(actions[i]) ])
                        \o <<253, 0>>
    IN  IF Len(bin_data) % 16 # 0
        THEN resize(bin_data, Len(bin_data) + 16 - (Len(bin_data) % 16), 0)
        ELSE bin_data

(***************************************************************************)
(* SpecScript: from_bin and to_bin on scripts whose actions lie behind a   *)
(* prelude of each size, once or doubled, for the values of byte 0x01 and  *)
(* of the flag bits of byte 0x50, and on scripts that are too short        *)
(***************************************************************************)
MaxScriptActions == 2

SampleActions ==
    << <<1, 0, 0, 0, 2, 0, 3, 4>> \o <<1, 128>> \o <<2, 1, 2, 3>> \o <<255>>,
       <<0, 0, 0, 128, 0, 1, 7, 9>> \o <<0>> \o <<4, 1, 2, 3, 255, 254, 255>> \o <<255>>,
       <<5, 6, 7, 8, 9, 10, 11, 12>> \o <<255>> >>

\* actions that fill more than the 0x80 bytes of a chain table
LongStream == Concat([ i \in 1..16 |-> SampleActions[3] ])

ActionStreams ==
    { Concat(SubSeq(SampleActions, 1, n)) : n \in 0..MaxScriptActions } \cup { LongStream }

PreludeSizes == {128, 256, 384, 512, 640, 768}
Discriminants == {0, 2, 3, 5, 128, 129}
FlagBytes == 0..16

PreludeBlock(size, first, discriminant, flag_byte) ==
    [ i \in 1..size |-> IF i = 1 THEN first
                        ELSE IF i = 2 THEN discriminant
                        ELSE IF i = 81 THEN flag_byte
                        ELSE (3 * i + 1) % 200 ]

Terminated(stream) ==
    stream \o <<253, 0>> \o Zeros((16 - ((Len(stream) + 2) % 16)) % 16)

Scripts ==
    { PreludeBlock(size, 7, discriminant, flag_byte)
          \o (IF doubled THEN PreludeBlock(size, 229, discriminant, flag_byte) ELSE << >>)
          \o Terminated(stream) :
          size \in PreludeSizes, discriminant \in Discriminants, flag_byte \in FlagBytes,
          doubled \in BOOLEAN, stream \in ActionStreams }

ShortScripts ==
    { << >>, <<7>>, PreludeBlock(127, 7, 0, 0), PreludeBlock(128, 7, 0, 0),
      PreludeBlock(255, 7, 3, 0), PreludeBlock(256, 7, 3, 0),
      PreludeBlock(256, 7, 5, 0) \o Terminated(<< >>),
      PreludeBlock(256, 7, 3, 0) \o <<1, 0, 0, 0, 2, 0, 3>>,
      PreludeBlock(256, 7, 3, 0) \o <<1, 0, 0, 0, 2, 0, 3, 4, 9, 255>> }

InitScript ==
    /\ overflow_checks \in BOOLEAN
    /\ \/ /\ has_play_data = TRUE
          /\ script_data \in Scripts \cup ShortScripts
       \/ /\ has_play_data = FALSE
          /\ script_data \in { Terminated(stream) : stream \in ActionStreams } \cup ShortScripts
    /\ pc = "script"
    /\ play_data_array = << >> /\ prelude_cursor = 0 /\ script_cursor = 0
    /\ script_actions = << >> /\ script_out = << >>
    /\ tableIdle /\ pointerIdle /\ indexIdle /\ rgbaIdle /\ cellIdle /\ identifyIdle /\ spriteIdle /\ archiveIdle /\ decryptIdle /\ signatureIdle /\ alphaIdle /\ nibbleIdle /\ binaryIdle /\ scriptableIdle /\ rawIdle /\ frameIdle

scriptOthers ==
    <<overflow_checks, tableVars, pointerVars, indexVars, rgbaVars, cellVars, identifyVars,
      spriteVars, archiveVars, decryptVars, signatureVars, alphaVars, nibbleVars, binaryVars, scriptableVars, rawVars, frameVars>>

\* from_bin up to the cursor placed at the end of the play data
PlayDataFromBin ==
    /\ pc = "script"
    /\ IF ~has_play_data
       THEN /\ pc' = "actions"
            /\ UNCHANGED <<play_data_array, prelude_cursor>>
       ELSE \E first \in { PlayData_from_bin(script_data) } :
               IF first.panic
               THEN /\ pc' = "panic"
                    /\ UNCHANGED <<play_data_array, prelude_cursor>>
               ELSE /\ play_data_array' = << first >>
                    /\ prelude_cursor' = play_data_cursor(script_data)
                    /\ pc' = "prelude"
    /\ UNCHANGED <<script_data, has_play_data, script_cursor, script_actions, script_out,
                   scriptOthers>>

IsukaHack ==
    /\ pc = "prelude"
    /\ \E hack \in { isuka_hack(script_data, prelude_cursor) } :
          /\ pc' = IF hack.panic THEN "panic" ELSE "actions"
          /\ play_data_array' = IF hack.panic THEN play_data_array
                                ELSE play_data_array \o hack.play_data
          /\ script_cursor' = hack.cursor
    /\ UNCHANGED <<script_data, has_play_data, prelude_cursor, script_actions, script_out,
                   scriptOthers>>

ParseActions ==
    /\ pc = "actions"
    /\ \E parsed_ \in { parse_actions(script_data, script_cursor, InstructionDb, << >>) } :
          /\ pc' = IF parsed_.panic THEN "panic" ELSE "parsed"
          /\ script_actions' = parsed_.actions
    /\ UNCHANGED <<script_data, has_play_data, play_data_array, prelude_cursor,
                   script_cursor, script_out, scriptOthers>>

BinScriptToBin ==
    /\ pc = "parsed"
    /\ script_out' = BinScript_to_bin(play_data_array, script_actions)
    /\ pc' = "written"
    /\ UNCHANGED <<script_data, has_play_data, play_data_array, prelude_cursor,
                   script_cursor, script_actions, scriptOthers>>

NextScript == PlayDataFromBin \/ IsukaHack \/ ParseActions \/ BinScriptToBin

SpecScript == InitScript /\ [][NextScript]_vars

\* the number of set bits among bits 0..3 of a byte
FlagBits(byte) == (byte % 2) + ((byte \div 2) % 2) + ((byte \div 4) % 2) + ((byte \div 8) % 2)

\* C24 as stated: with play data, the cursor placed at the end of the play data
\* (before the 0xE5 special case) is 0x300 if byte 0x01 is 0x05, 0x80 if byte
\* 0x01 is at most 0x02 or at least 0x81, and otherwise one of 0x100, 0x180,
\* 0x200 and 0x280.
C24_PreludeAsClaimed ==
    pc = "prelude" =>
        IF At(script_data, 1) = 5 THEN prelude_cursor = 768
        ELSE IF At(script_data, 1) <= 2 \/ At(script_data, 1) >= 129
        THEN prelude_cursor = 128
        ELSE prelude_cursor \in {256, 384, 512, 640}

\* C24: with play data, the cursor placed at the end of the play data (before
\* the 0xE5 special case) is 0x300 if byte 0x01 is 0x05, 0x80 if byte 0x01 is
\* at most 0x02 or at least 0x81, and otherwise 0x100 plus 0x80 for each set
\* bit among bits 0..3 of byte 0x50: one of 0x100, 0x180, 0x200, 0x280, 0x300.
C24_PreludeSize ==
    pc = "prelude" =>
        IF At(script_data, 1) = 5 THEN prelude_cursor = 768
        ELSE IF At(script_data, 1) <= 2 \/ At(script_data, 1) >= 129
        THEN prelude_cursor = 128
        ELSE /\ prelude_cursor = 256 + 128 * FlagBits(At(script_data, 80))
             /\ prelude_cursor \in {256, 384, 512, 640, 768}

\* a script whose byte 0x01 is not 0x05 and whose four flag bits are all set
C24_Witness ==
    /\ pc = "prelude"
    /\ At(script_data, 1) = 3
    /\ At(script_data, 80) = 15
    /\ prelude_cursor = 768

\* the bytes to_bin emits before the first action
PreludeOut ==
    Concat([ i \in 1..Len(play_data_array) |-> PlayData_to_bin(play_data_array[i]) ])

\* C30: for a script parsed with play data and written back, the bytes to_bin
\* emits before the first action are as many as the offset at which from_bin
\* started to parse the actions, and they equal the input bytes before that
\* offset, whatever byte 0x01 and the flag bits of byte 0x50 are.
C30_PreludePreserved ==
    (pc = "written" /\ has_play_data) =>
        /\ Len(PreludeOut) = script_cursor
        /\ PreludeOut = SubSeq(script_data, 1, script_cursor)
        /\ SubSeq(script_out, 1, Len(PreludeOut)) = PreludeOut

(***************************************************************************)
(* SpecCellBinary: Cell::from_binary_data on the bytes Cell::to_bin wrote, *)
(* on their truncations, and on buffers whose box count exceeds them       *)
(***************************************************************************)
BoxLists == SeqsUpTo(BoxSamples, MaxBoxes)

CellBuffers ==
    { Truncate(Cell_to_bin([NoCell EXCEPT !.boxes = boxes, !.sprite_index = 258]), n) :
          boxes \in BoxLists, n \in 0..(CELL_LEN_BASE + CELL_LEN_BOX * MaxBoxes + 8) }
    \cup { to_le_bytes_u32(count) \o Zeros(n) :
               count \in { u32(3), [hi |-> 1, lo |-> 0], SENTINEL }, n \in {0, 12, 36, 47, 48} }

InitCellBinary ==
    /\ overflow_checks \in BOOLEAN
    /\ \/ /\ pc = "new"
          /\ cell \in Cells
          /\ cell_buffer = << >>
       \/ /\ pc = "buffer"
          /\ cell = NoCell
          /\ cell_buffer \in CellBuffers
    /\ cell_bin = << >> /\ cell_json = NoCellJSON /\ cell_back = NoCell
    /\ cell_read = NoRead
    /\ tableIdle /\ pointerIdle /\ indexIdle /\ rgbaIdle /\ identifyIdle /\ spriteIdle /\ archiveIdle /\ decryptIdle /\ signatureIdle /\ alphaIdle /\ nibbleIdle /\ scriptIdle /\ scriptableIdle /\ rawIdle /\ frameIdle

binaryOthers ==
    <<overflow_checks, tableVars, pointerVars, indexVars, rgbaVars, cellVars, identifyVars,
      spriteVars, archiveVars, decryptVars, signatureVars, alphaVars, nibbleVars, scriptVars, scriptableVars, rawVars, frameVars>>

\* from_binary_data on the bytes to_bin returned, or on the buffer given
CellFromBinaryData ==
    /\ pc \in {"binned", "buffer"}
    /\ cell_buffer' = IF pc = "binned" THEN cell_bin ELSE cell_buffer
    /\ cell_read' = Cell_from_binary_data(cell_buffer')
    /\ pc' = IF cell_read'.panic THEN "panic" ELSE "read"
    /\ UNCHANGED binaryOthers

NextCellBinary == CellToBin \/ CellFromBinaryData

SpecCellBinary == InitCellBinary /\ [][NextCellBinary]_vars

\* C27: from_binary_data applied to the bytes to_bin wrote for a cell returns
\* that cell, with the same boxes in the same order and every field equal; and
\* on any buffer it stays inside the buffer, returning None when the buffer is
\* shorter than 4 bytes or shorter than 16 + 12 * box_count.
C27_CellBinaryRoundTrip ==
    /\ pc # "panic"
    /\ pc = "read" =>
          /\ cell_bin # << >> =>
                /\ ~cell_read.none
                /\ Len(cell_read.cell.boxes) = Len(cell.boxes)
                /\ cell_read.cell = cell
          /\ (\/ Len(cell_buffer) < 4
              \/ Len(cell_buffer) < 16 + 12 * as_usize(le_u32_at(cell_buffer, 0)))
                 => cell_read.none

\* a cell of two boxes with negative offsets has come back from its bytes
C27_Witness ==
    /\ pc = "read"
    /\ cell_bin # << >>
    /\ Len(cell.boxes) = 2
    /\ cell.boxes[1].crop_x_offset = -1
    /\ cell.sprite_x_offset = -2
    /\ cell_read.cell = cell

(***************************************************************************)
(* Scriptable objects: the writer BinResource::get_bin_scriptable, the     *)
(* reader load_scriptable (bin_resource.rs) and the second writer          *)
(* ObjectData::get_as_binary (object_data.rs).  A dictionary holds its     *)
(* cells and sprites as objects, its palettes as RGBA arrays; has_palettes *)
(* is the presence of the "palettes" key.  load_sprite_data is handed each *)
(* sprite slice; the slices are what the reader's outcome keeps.           *)
(***************************************************************************)
DEFAULT_HEADER == <<3, 0, 32, 0, 8, 0, 192, 0, 32, 1, 8, 0, 9, 0, 255, 255>>

BinPalette_to_bin(palette_) ==
    (IF Len(palette_) \div 4 < 17 THEN [DEFAULT_HEADER EXCEPT ![5] = 4] ELSE DEFAULT_HEADER)
        \o palette_

\* Option<BinPalette>; the caller hands it 0x410 bytes
BinPalette_from_bin_data(bin_data) ==
    IF At(bin_data, 2) # 32 THEN [none |-> TRUE, palette |-> << >>]
    ELSE [none |-> FALSE,
          palette |-> IF At(bin_data, 4) = 4 THEN Slice(bin_data, 16, 80)
                      ELSE Slice(bin_data, 16, 1040)]

\* get_cell_block, get_sprite_block (offset 0) and get_palette_block, on the
\* bytes to_bin returned for each item
get_block(items) == [pointers |-> data_offsets(items, 0), data |-> Concat(items)]

cells_to_bin(cell_array) == [ i \in 1..Len(cell_array) |-> Cell_to_bin(cell_array[i]) ]

sprites_to_bin(sprite_array) == [ i \in 1..Len(sprite_array) |-> to_bin(sprite_array[i], TRUE) ]

palettes_to_bin(palette_array) ==
    [ i \in 1..Len(palette_array) |-> BinPalette_to_bin(palette_array[i]) ]

get_bin_scriptable(dictionary) ==
    LET cell_tuple == get_block(cells_to_bin(dictionary.cells))
        cell_pointers == finalize_pointers(cell_tuple.pointers)
        sprite_tuple == get_block(sprites_to_bin(dictionary.sprites))
        sprite_pointers == finalize_pointers(sprite_tuple.pointers)
        cells_part == cell_pointers \o cell_tuple.data
        sprites_part == sprite_pointers \o sprite_tuple.data
        palette_tuple == get_block(palettes_to_bin(dictionary.palettes))
        palettes_part == finalize_pointers(palette_tuple.pointers) \o palette_tuple.data
        header_pointers ==
            << u32(0), u32(Len(cells_part)), u32(Len(cells_part) + Len(sprites_part)) >>
              \o (IF dictionary.has_palettes
                  THEN << u32(Len(cells_part) + Len(sprites_part) + Len(dictionary.scripts)) >>
                  ELSE << >>)
    IN  finalize_pointers(header_pointers) \o cells_part \o sprites_part \o dictionary.scripts
            \o (IF dictionary.has_palettes THEN palettes_part ELSE << >>)

\* get_binary_cells, get_binary_sprites: pointers, terminator, alignment, data
get_binary_block(items) ==
    LET vector_pointers == terminate_and_align(Append(data_offsets(items, 0), SENTINEL))
    IN  Concat([ pointer \in 1..Len(vector_pointers) |->
                   to_le_bytes_u32(IF pointer <= Len(items)
                                   THEN wrapping_add_u32(vector_pointers[pointer],
                                                         4 * Len(vector_pointers))
                                   ELSE vector_pointers[pointer]) ])
            \o Concat(items)

get_binary_palettes(palette_array) ==
    IF Len(palette_array) < 1 THEN << >>
    ELSE get_binary_block(palettes_to_bin(palette_array))

\* a header that always counts three pointers
get_as_binary_three_pointers(self) ==
    LET binary_cells == get_binary_block(cells_to_bin(self.cells))
        binary_sprites == get_binary_block(sprites_to_bin(self.sprites))
        binary_palettes == get_binary_palettes(self.palettes)
        pointer_sprites == 16 + Len(binary_cells)
        pointer_scripts == pointer_sprites + Len(binary_sprites)
    IN  to_le_bytes_u32(u32(16)) \o to_le_bytes_u32(u32(pointer_sprites))
            \o to_le_bytes_u32(u32(pointer_scripts))
            \o (IF binary_palettes # << >>
                THEN to_le_bytes_u32(u32(pointer_scripts + Len(self.scripts)))
                         \o Filler \o Filler \o Filler
                ELSE << >>)
            \o Filler
            \o binary_cells \o binary_sprites \o self.scripts \o binary_palettes

get_as_binary(self) ==
    LET binary_cells == get_binary_block(cells_to_bin(self.cells))
        binary_sprites == get_binary_block(sprites_to_bin(self.sprites))
        binary_palettes == get_binary_palettes(self.palettes)
        pointer_cells == IF binary_palettes = << >> THEN 16 ELSE 32
        pointer_sprites == pointer_cells + Len(binary_cells)
        pointer_scripts == pointer_sprites + Len(binary_sprites)
    IN  to_le_bytes_u32(u32(pointer_cells)) \o to_le_bytes_u32(u32(pointer_sprites))
            \o to_le_bytes_u32(u32(pointer_scripts))
            \o (IF binary_palettes # << >>
                THEN to_le_bytes_u32(u32(pointer_scripts + Len(self.scripts)))
                         \o Filler \o Filler \o Filler
                ELSE << >>)
            \o Filler
            \o binary_cells \o binary_sprites \o self.scripts \o binary_palettes

\* The loaders return [panic, items]: panic when an index or a slice leaves
\* bin_data.  load_cells: the slice handed to Cell::from_binary_data for each
\* cell pointer
Panicked == [panic |-> TRUE, items |-> << >>]

Loaded(items_) == [panic |-> FALSE, items |-> items_]

load_cells(bin_data, pointers) ==
    IF Len(pointers) < 1 THEN Panicked
    ELSE LET base == as_usize(At(pointers, 0))
             cell_pointers == get_pointers(bin_data, base, FALSE)
             cursor(k) == base + as_usize(cell_pointers[k])
             last(k) == cursor(k) + CELL_LEN_BASE
                            + as_usize(le_u32_at(bin_data, cursor(k))) * CELL_LEN_BOX
         IN  IF \E k \in 1..Len(cell_pointers) :
                    cursor(k) + 3 >= Len(bin_data) \/ last(k) > Len(bin_data)
             THEN Panicked
             ELSE Loaded([ k \in 1..Len(cell_pointers) |->
                             Slice(bin_data, cursor(k), last(k)) ])

\* the slice handed to load_sprite_data for each sprite pointer
load_sprites(bin_data, pointers) ==
    IF Len(pointers) < 2 THEN Panicked
    ELSE LET base == as_usize(At(pointers, 1))
             sprite_pointers == get_pointers(bin_data, base, FALSE)
             start(k) == base + as_usize(sprite_pointers[k])
             end(k) == IF k < Len(sprite_pointers)
                       THEN base + as_usize(sprite_pointers[k + 1])
                       ELSE IF Len(pointers) < 3 THEN OutOfRange
                       ELSE as_usize(At(pointers, 2))
         IN  IF \E k \in 1..Len(sprite_pointers) :
                    start(k) > end(k) \/ end(k) > Len(bin_data)
             THEN Panicked
             ELSE Loaded([ k \in 1..Len(sprite_pointers) |->
                             Slice(bin_data, start(k), end(k)) ])

load_scripts(bin_data, pointers) ==
    IF Len(pointers) < 3 THEN Panicked
    ELSE LET start == as_usize(At(pointers, 2))
             end == IF Len(pointers) = 4 THEN as_usize(At(pointers, 3)) ELSE Len(bin_data)
         IN  IF start > end \/ end > Len(bin_data) THEN Panicked
             ELSE Loaded(Slice(bin_data, start, end))

\* the 0x410 bytes handed to BinPalette::from_bin_data for each palette pointer
load_palettes(bin_data, pointers) ==
    IF Len(pointers) < 4 THEN Loaded(<< >>)
    ELSE LET base == as_usize(At(pointers, 3))
             palette_pointers == get_pointers(bin_data, base, FALSE)
         IN  IF \E k \in 1..Len(palette_pointers) :
                    base + as_usize(palette_pointers[k]) + 1040 > Len(bin_data)
             THEN Panicked
             ELSE Loaded([ k \in 1..Len(palette_pointers) |->
                             Slice(bin_data, base + as_usize(palette_pointers[k]),
                                   base + as_usize(palette_pointers[k]) + 1040) ])

load_scriptable(bin_data) ==
    LET pointers == get_pointers(bin_data, 0, FALSE)
        cells == load_cells(bin_data, pointers)
        sprites == load_sprites(bin_data, pointers)
        scripts == load_scripts(bin_data, pointers)
        palettes == load_palettes(bin_data, pointers)
    IN  IF cells.panic \/ sprites.panic \/ scripts.panic \/ palettes.panic
        THEN [NoScriptable EXCEPT !.panic = TRUE]
        ELSE [panic |-> FALSE,
              cell_slices |-> cells.items,
              cells |-> [ k \in 1..Len(cells.items) |->
                            Cell_from_binary_data(cells.items[k]) ],
              sprites |-> sprites.items,
              scripts |-> scripts.items,
              palette_slices |-> palettes.items,
              palettes |-> [ k \in 1..Len(palettes.items) |->
                               BinPalette_from_bin_data(palettes.items[k]) ]]

(***************************************************************************)
(* SpecScriptable: both writers and the reader on dictionaries of up to    *)
(* MaxItems cells, sprites and palettes of 16 and of 256 colours           *)
(***************************************************************************)
MaxItems == 2

SampleCells ==
    { [NoCell EXCEPT !.sprite_index = 1],
      [NoCell EXCEPT !.boxes = << Box(-3, 7, 16, 300, 3, 2, 5) >>, !.sprite_x_offset = -2] }

SampleSprites ==
    { [width |-> 2, height |-> 2, bit_depth |-> 8, pixels |-> <<0, 1, 255, 0>>,
       palette |-> << >>],
      [width |-> 1, height |-> 2, bit_depth |-> 4, pixels |-> <<1, 15>>, palette |-> << >>] }

SampleScripts == { << >>, Terminated(<< >>), Terminated(SampleActions[1]) }

PaletteOf(colors) == [ i \in 1..(4 * colors) |-> (5 * i + colors) % 256 ]

SamplePalettes == { PaletteOf(16), PaletteOf(256) }

ObjectDictionaries ==
    { [cells |-> cells, sprites |-> sprites, scripts |-> scripts, palettes |-> palettes,
       has_palettes |-> Len(palettes) > 0] :
          cells \in SeqsUpTo(SampleCells, MaxItems),
          sprites \in SeqsUpTo(SampleSprites, MaxItems),
          scripts \in SampleScripts,
          palettes \in SeqsUpTo(SamplePalettes, MaxItems) }

InitScriptable ==
    /\ overflow_checks \in BOOLEAN
    /\ pc = "object"
    /\ object_dictionary \in ObjectDictionaries
    /\ object_vector = << >> /\ object_binary = << >> /\ loaded_scriptable = NoScriptable
    /\ tableIdle /\ pointerIdle /\ indexIdle /\ rgbaIdle /\ cellIdle /\ identifyIdle /\ spriteIdle /\ archiveIdle /\ decryptIdle /\ signatureIdle /\ alphaIdle /\ nibbleIdle /\ scriptIdle /\ binaryIdle /\ rawIdle /\ frameIdle

scriptableOthers ==
    <<overflow_checks, tableVars, pointerVars, indexVars, rgbaVars, cellVars, identifyVars,
      spriteVars, archiveVars, decryptVars, signatureVars, alphaVars, nibbleVars, scriptVars,
      binaryVars, rawVars, frameVars>>

GetBinScriptable ==
    /\ pc = "object"
    /\ object_vector' = get_bin_scriptable(object_dictionary)
    /\ pc' = "vector"
    /\ UNCHANGED <<object_dictionary, object_binary, loaded_scriptable, scriptableOthers>>

LoadScriptable ==
    /\ pc = "vector"
    /\ \E read \in { load_scriptable(object_vector) } :
          /\ loaded_scriptable' = read
          /\ pc' = IF read.panic THEN "load panic" ELSE "scriptable"
    /\ UNCHANGED <<object_dictionary, object_vector, object_binary, scriptableOthers>>

GetAsBinary ==
    /\ pc = "vector"
    /\ object_binary' = get_as_binary(object_dictionary)
    /\ pc' = "binary"
    /\ UNCHANGED <<object_dictionary, object_vector, loaded_scriptable, scriptableOthers>>

NextScriptable == GetBinScriptable \/ LoadScriptable \/ GetAsBinary

SpecScriptable == InitScriptable /\ [][NextScriptable]_vars

\* C25: the bytes get_bin_scriptable writes for cells, sprites, a script and
\* optional palettes of 16 or 256 colours are read back by load_scriptable
\* without leaving the buffer, as the same number of cells, sprites and
\* palettes, each slice holding the bytes the writer wrote for that item (for a
\* cell, its 16 + 12 * box_count bytes), and as the same script bytes.
C25_NestedAddressing ==
    /\ pc # "load panic"
    /\ pc = "scriptable" =>
          LET cells_bin == cells_to_bin(object_dictionary.cells)
              sprites_bin == sprites_to_bin(object_dictionary.sprites)
              palettes_bin == palettes_to_bin(object_dictionary.palettes)
          IN  /\ Len(loaded_scriptable.cell_slices) = Len(cells_bin)
              /\ \A k \in 1..Len(cells_bin) :
                    /\ loaded_scriptable.cell_slices[k]
                           = Truncate(cells_bin[k],
                                      16 + 12 * Len(object_dictionary.cells[k].boxes))
                    /\ loaded_scriptable.cells[k].cell = object_dictionary.cells[k]
              /\ loaded_scriptable.sprites = sprites_bin
              /\ loaded_scriptable.scripts = object_dictionary.scripts
              /\ loaded_scriptable.palette_slices = palettes_bin

\* C29: for the same cells, sprites, script bytes and palettes,
\* ObjectData::get_as_binary and BinResource::get_bin_scriptable return the same
\* bytes; without palettes the header table is 16 bytes (3 pointers, cells at
\* 0x10), with at least one palette it is 32 bytes (4 pointers, cells at 0x20).
HeaderPointers(bin_data) == get_pointers(bin_data, 0, FALSE)

palette_end(header, overflow_checks_) ==
    IF header.clut # 32 THEN HEADER_SIZE
    ELSE IF header.bit_depth >= 62
    THEN (IF overflow_checks_ THEN OutOfRange ELSE HEADER_SIZE)
    ELSE IF header.bit_depth >= 16 THEN OutOfRange
    ELSE HEADER_SIZE + 4 * (2 ^ header.bit_depth)

get_bin_data(bin_data, overflow_checks_, flip_) ==
    IF Len(bin_data) < 32 \/ At(bin_data, 0) > 1 THEN NoRaw
    ELSE LET header == get_header(bin_data)
             pointer == palette_end(header, overflow_checks_)
         IN  IF header.compressed
             THEN [none |-> FALSE, data |-> decompress(bin_data, header, overflow_checks_, flip_)]
             ELSE IF pointer > Len(bin_data) THEN [none |-> FALSE, data |-> PanicData]
             ELSE LET pixels == Truncate(Slice(bin_data, pointer, Len(bin_data)),
                                         header.width * header.height)
                  IN  [none |-> FALSE,
                       data |-> [panic |-> FALSE, width |-> header.width,
                                 height |-> header.height,
                                 pixels |-> IF header.bit_depth = 4
                                            THEN bpp_from_4(pixels, TRUE) ELSE pixels,
                                 palette |-> Slice(bin_data, HEADER_SIZE, pointer)]]

\* the SpriteData load_sprites builds from one file
load_sprites_file(bin_data, overflow_checks_, flip_) ==
    IF Len(bin_data) < HEADER_SIZE THEN PanicData
    ELSE LET header == get_header(bin_data)
             pointer == palette_end(header, overflow_checks_)
         IN  IF header.compressed THEN decompress(bin_data, header, overflow_checks_, flip_)
             ELSE IF pointer > Len(bin_data) THEN PanicData
             ELSE LET byte_vector == Slice(bin_data, pointer, Len(bin_data))
                  IN  [panic |-> FALSE, width |-> header.width, height |-> header.height,
                       pixels |-> resize(IF header.bit_depth = 4
                                         THEN bpp_from_4(byte_vector, TRUE)
                                         ELSE byte_vector,
                                         header.width * header.height, 0),
                       palette |-> Slice(bin_data, HEADER_SIZE, pointer)]

(***************************************************************************)
(* SpecRaw: both readers on uncompressed records of 4 and 8 bpp, with and  *)
(* without an embedded palette, whose payload is shorter than, equal to    *)
(* and longer than the pixels need; on files get_bin_data rejects; and on  *)
(* a compressed record.                                                    *)
(***************************************************************************)
MaxPayload == 20

RawShapes == { <<0, 3>>, <<1, 1>>, <<3, 5>>, <<4, 4>>, <<6, 6>> }

Payload(n) == [ i \in 1..n |-> (7 * i + 3) % 256 ]

RawRecords ==
    { make_header(FALSE, clut, bit_depth, wh[1], wh[2], 0, 0, 0)
          \o (IF clut = 32 THEN [ i \in 1..(4 * (2 ^ bit_depth)) |-> (3 * i) % 256 ]
              ELSE << >>)
          \o Payload(n) :
          clut \in {0, 32}, bit_depth \in {4, 8}, wh \in RawShapes, n \in 0..MaxPayload }

RejectedFiles ==
    { make_header(FALSE, 32, 8, 1, 1, 0, 0, 0) \o Payload(16),
      <<2>> \o Tail(make_header(FALSE, 0, 8, 2, 2, 0, 0, 0)) \o Payload(16),
      Payload(8) }

CompressedFiles == { to_bin(sprite, TRUE) : sprite \in SampleSprites }

InitRaw ==
    /\ overflow_checks \in BOOLEAN
    /\ pc = "file"
    /\ raw_record \in RawRecords \cup RejectedFiles \cup CompressedFiles
    /\ raw_data = NoRaw /\ raw_loaded = NoSpriteData
    /\ tableIdle /\ pointerIdle /\ indexIdle /\ rgbaIdle /\ cellIdle /\ identifyIdle /\ spriteIdle /\ archiveIdle /\ decryptIdle /\ signatureIdle /\ alphaIdle /\ nibbleIdle /\ scriptIdle /\ binaryIdle /\ scriptableIdle /\ frameIdle

rawOthers ==
    <<overflow_checks, tableVars, pointerVars, indexVars, rgbaVars, cellVars, identifyVars,
      spriteVars, archiveVars, decryptVars, signatureVars, alphaVars, nibbleVars, scriptVars,
      binaryVars, scriptableVars, frameVars>>

GetBinData ==
    /\ pc = "file"
    /\ \E flip_ \in BOOLEAN :
          \E got \in { get_bin_data(raw_record, overflow_checks, flip_) } :
              /\ raw_data' = got
              /\ pc' = IF got.none THEN "skipped"
                       ELSE IF got.data.panic THEN "panic" ELSE "got"
    /\ UNCHANGED <<raw_record, raw_loaded, rawOthers>>

LoadSprites ==
    /\ pc = "file"
    /\ \E flip_ \in BOOLEAN :
          \E got \in { load_sprites_file(raw_record, overflow_checks, flip_) } :
              /\ raw_loaded' = got
              /\ pc' = IF got.panic THEN "panic" ELSE "loaded"
    /\ UNCHANGED <<raw_record, raw_data, rawOthers>>

NextRaw == GetBinData \/ LoadSprites

SpecRaw == InitRaw /\ [][NextRaw]_vars

\* C26: for every record with compressed flag 0, bit depth 4 or 8, with or
\* without embedded palette and any payload length, the pixels get_bin_data
\* returns number width * height.
Uncompressed(record) ==
    /\ Len(record) >= 32
    /\ At(record, 0) = 0
    /\ get_header(record).bit_depth \in {4, 8}

C26_PixelCount ==
    pc = "got" /\ Uncompressed(raw_record) =>
        Len(raw_data.data.pixels) = raw_data.data.width * raw_data.data.height

(***************************************************************************)
(* SpecFrame: the framing of a compressed record on its own.  The writer   *)
(* (the tail of BinSprite::to_bin, the same loop in save_sprites) is given *)
(* an iteration count and a stream; decompress parses the record up to its *)
(* loop.                                                                   *)
(***************************************************************************)
MaxStreamLength == 4

IterationCounts ==
    { [hi |-> hi, lo |-> lo] : hi \in {0, 1, 258, Half - 1}, lo \in {0, 1, 772, Half - 1} }

StreamBytes == {0, 1, 128, 255}

Streams == SeqsUpTo(StreamBytes, MaxStreamLength)

InitFrame ==
    /\ overflow_checks \in BOOLEAN
    /\ pc = "stream"
    /\ frame_iterations \in IterationCounts
    /\ frame_stream \in Streams
    /\ frame_record = << >> /\ frame_read = NoFrame
    /\ tableIdle /\ pointerIdle /\ indexIdle /\ rgbaIdle /\ cellIdle /\ identifyIdle /\ spriteIdle /\ archiveIdle /\ decryptIdle /\ signatureIdle /\ alphaIdle /\ nibbleIdle /\ scriptIdle /\ binaryIdle /\ scriptableIdle /\ rawIdle

frameOthers ==
    <<overflow_checks, tableVars, pointerVars, indexVars, rgbaVars, cellVars, identifyVars,
      spriteVars, archiveVars, decryptVars, signatureVars, alphaVars, nibbleVars, scriptVars,
      binaryVars, scriptableVars, rawVars>>

WriteCompressed ==
    /\ pc = "stream"
    /\ frame_record' = make_header(TRUE, 0, 8, 1, 1, 0, 0, 0)
                           \o write_compressed(frame_iterations, frame_stream)
    /\ pc' = "framed"
    /\ UNCHANGED <<frame_iterations, frame_stream, frame_read, frameOthers>>

ReadCompressed ==
    /\ pc = "framed"
    /\ frame_read' = read_compressed(frame_record, HEADER_SIZE)
    /\ pc' = IF frame_read'.panic THEN "panic" ELSE "parsed"
    /\ UNCHANGED <<frame_iterations, frame_stream, frame_record, frameOthers>>

NextFrame == WriteCompressed \/ ReadCompressed

SpecFrame == InitFrame /\ [][NextFrame]_vars

\* C28: for every iteration count in 0..2^32 and every stream of even or odd
\* length, the record the writer frames is parsed by decompress into the same
\* count and the same stream bytes, none dropped and none added.
C28_FramingRoundTrip ==
    /\ pc = "framed" => Len(frame_record) = HEADER_SIZE + 4 + Len(frame_stream)
    /\ pc = "parsed" =>
          /\ frame_read.iterations = frame_iterations
          /\ frame_read.byte_data = frame_stream

====
